---- MODULE Spec2Model ----
(***************************************************************************)
(* Seitokai: the gateway connection (impl/websocket.py WebSocketClient),   *)
(* the fan-out unit (impl/event_manager.py Dispatchable), the event        *)
(* manager (impl/event_manager.py BaseEventManager / EventManager), the    *)
(* bot that runs them (impl/bot.py WebSocketBot) and the second gateway    *)
(* client of the repository (impl/gateway.py WebsocketClient).             *)
(*                                                                         *)
(* Scheduling is anyio's: cooperative tasks, task groups whose cancel      *)
(* scope is level-triggered (once a scope is cancelled every checkpoint    *)
(* inside it raises the cancellation, unless shielded), a child task that  *)
(* raises cancels its task group, and the group's exit waits for every     *)
(* child before it re-raises.  A step of the model is the code between two *)
(* suspension points of one task.                                          *)
(***************************************************************************)
EXTENDS Integers, Sequences, FiniteSets, TLC

\* ------------------------------------------------------------------ bounds
MaxSessions == 2      \* sockets opened over a behaviour
MaxFrames == 2        \* frames taken off the socket after the hello frame
MaxBeats == 2         \* pings one heartbeat task sends
MaxCalls == 6         \* calls of the registration and dispatch methods
MaxGwCalls == 3       \* calls of close, add_raw_listener, remove_raw_listener

\* --------------------------------------------------------------- constants
None == 0             \* Python's None, for the fields that hold ids
MsPerSecond == 1000   \* heartbeat_interval / 1000

Runners == {"r1", "r2"}        \* tasks that call WebSocketClient.run
Closers == {"c1", "c2"}        \* tasks that call WebSocketClient.close
SessionIds == 1..MaxSessions
BotRunners == {"b1", "b2"}     \* tasks that call WebSocketBot.run
BotClosers == {"k1", "k2"}     \* tasks that call WebSocketBot.close or join

\* heartbeatIntervalMs values of the hello payload
HelloIntervals == {1000, 2000}
HelloMessageId == "m0"         \* lastMessageId of the hello payload

\* the callbacks the application registers on the event manager
Callbacks == {"evA", "evB"}

\* wsproto control events
PING == "ping"
PONG == "pong"

VARIABLES
    \* WebSocketClient fields
    client,          \* _client: None or the socket of the session
    cancelScope,     \* _cancel_scope: None or the session's task-group scope
    joinEvent,       \* _join_event: None or the session's anyio.Event
    lastMessageId,   \* _last_message_id
    \* objects the fields refer to, by session id
    nSessions,       \* sockets created so far
    sockOpen,        \* the sockets that are open
    sockCloses,      \* per socket: completed client.close() calls
    cancelled,       \* the task-group scopes that have been cancelled
    eventSets,       \* per join event: calls of Event.set()
    \* the task inside run, per caller
    pc,              \* where the caller is in run
    sess,            \* the local `client` / task group of its session
    leave,           \* how the body of the task group was left
    result,          \* outcome of the caller's last run call
    \* children of the session's task group
    hb,              \* the heartbeat task
    childExc,        \* a child raised: the group re-raises it on exit
    \* callers of close
    cl,
    tasks,           \* the callback tasks dispatch started in the group
    \* the wire
    sent,            \* per runner: control frames its session sent
    nFrames,         \* frames received after hello
    lastTexts,       \* the text frames _handle_message got last (two at most)
    \* fan-out
    rawDispatchers,  \* WebSocketClient._raw_dispatchers: name -> Dispatchable
    streams,         \* the memory object streams: buffer, capacity, open
    \* BaseEventManager
    emDispatchers,   \* _dispatchers: event type -> Dispatchable
    emTaskGroup,     \* _task_group: None or the task group of run
    emPc,            \* where the task inside BaseEventManager.run is
    emCancelled,     \* the scope of the manager's task group is cancelled
    emTasks,         \* the callback tasks started in the manager's group
    emChildExc,      \* a callback of the manager's group raised
    emResult,        \* outcome of the last BaseEventManager.run call
    \* the application's calls of the registration and dispatch methods
    nCalls,          \* calls made so far
    apiResult,       \* the last call and how it ended
    nValues,         \* events handed to BaseEventManager.dispatch so far
    netCallbacks,    \* per callback: add_listener calls less the removals
    subs,            \* per stream of the manager: the events offered to it
                     \* while subscribed and the number it has taken
    \* WebSocketBot fields
    botCloseScope,   \* _close_scope: None or the scope of the run's task group
    botIsClosing,    \* _is_closing
    botJoinEvent,    \* _join_event: None or the run's anyio.Event
    botEventSets,    \* the join events of the bot that have been set
    restClient,      \* RestClient._client: None or the run that started it
    nBotRuns,        \* runs of the bot that got past the check
    bot,             \* per caller of WebSocketBot.run: where it is, the outcome
    bcl,             \* per caller of WebSocketBot.close / join: the same
    closeCalls,      \* per component: calls of its close by WebSocketBot.close
    \* impl/gateway.py: WebsocketClient fields
    gwClient,        \* _client: None or the socket
    gwTaskGroup,     \* _task_group: None or the task group of start
    gwLastMessageId, \* _last_message_id
    gwListeners,     \* _listeners: the registered Listener objects, in order
    gwStreams,       \* send streams made by stream()
    \* objects of the gateway client
    gwActive,        \* the Listener objects that are active
    gwNSessions,     \* sockets created so far
    gwNObj,          \* Listener objects created so far
    gwNCalls,        \* calls of close, add_raw_listener, remove_raw_listener
    gw,              \* per caller of start: where it is, its heartbeat task
    gwCancelled,     \* the task groups whose scope has been cancelled
    gwSockClosed,    \* the sockets that have been closed
    gwCl,            \* the caller of close
    gwApi            \* the last add or remove call and how it ended

wsVars == <<client, cancelScope, joinEvent, lastMessageId, nSessions, sockOpen,
            sockCloses, cancelled, eventSets, pc, sess, leave, result, hb,
            childExc, cl, tasks, sent, nFrames, lastTexts>>
fanVars == <<rawDispatchers, streams, emDispatchers>>
emVars == <<emTaskGroup, emPc, emCancelled, emTasks, emChildExc, emResult>>
apiVars == <<nCalls, apiResult, nValues, netCallbacks, subs>>
botVars == <<botCloseScope, botIsClosing, botJoinEvent, botEventSets, restClient,
             nBotRuns, bot, bcl, closeCalls>>
gwVars == <<gwClient, gwTaskGroup, gwLastMessageId, gwListeners, gwStreams,
            gwActive, gwNSessions, gwNObj, gwNCalls, gw, gwCancelled,
            gwSockClosed, gwCl, gwApi>>
coreVars == <<wsVars, fanVars, emVars, apiVars, botVars>>
vars == <<coreVars, gwVars>>

\* ----------------------------------------------------------------- helpers
NoHeartbeat == [st |-> "none", timer |-> 0, delay |-> 0, interval |-> 0,
                beats |-> 0, since |-> 0]

\* property is_running
IsRunning == client # None

\* The heartbeat task exists and has not finished.
HeartbeatAlive(r) == hb[r].st \in {"ready", "sleeping"}

\* The heartbeat task is at the top of its loop, about to send.
HeartbeatDue(r) ==
    \/ hb[r].st = "ready"
    \/ hb[r].st = "sleeping" /\ hb[r].timer = 0

\* _send_raw_event(ws, event): the frame put on the wire for `event`.
\* Line 110 sends _PING whatever the event is.
SendRawEvent(event) == PING

\* The interval of the hello taken as seconds without the division.
HeartbeatDelayUndivided(intervalMs) == intervalMs

\* _wait_for_hello line 173: the sleep of the heartbeat, in seconds (the
\* intervals of HelloIntervals are whole seconds).
HeartbeatDelay(intervalMs) == intervalMs \div MsPerSecond

\* The smaller of two numbers.
Min(a, b) == IF a < b THEN a ELSE b

\* What `subs` holds of a stream just made: whose it is (the manager's or
\* the connection's, and of which type or name), that it is subscribed,
\* and that nothing was offered to it or taken yet.
NewSub(side, type) ==
    [side |-> side, type |-> type, listed |-> TRUE, offered |-> <<>>, taken |-> 0]

\* A caller of WebSocketBot.close or join before its call: the call it
\* makes, the run of the bot in progress when it calls (None when the bot
\* is not running), the join event of the bot and of the connection it
\* waits for, and how the call ended.
NoBotCall ==
    [pc |-> "idle", call |-> "none", during |-> None, ev |-> None, wsEv |-> None,
     result |-> "none"]

\* The last two elements of a sequence.
LastTwo(seq) == IF Len(seq) <= 2 THEN seq ELSE SubSeq(seq, Len(seq) - 1, Len(seq))

\* The state after construction (__init__, lines 84-91; BaseEventManager
\* __init__, lines 137-139): nothing running (InitRuntime), nothing
\* registered (Init).
\* The callers of start, and the (name, callback) pairs the application
\* registers: two callbacks for one event name.
GwStarters == {"g1", "g2"}
GwKeys == {"cbA", "cbB"}

\* A caller of start before its call.
GwIdle ==
    [pc |-> "idle", sess |-> None, leave |-> "none", result |-> "none",
     hb |-> "none", hbCancel |-> FALSE, pings |-> 0, childExc |-> FALSE]

GwInit ==
    /\ gwClient = None
    /\ gwTaskGroup = None
    /\ gwLastMessageId = ""
    /\ gwListeners = <<>>
    /\ gwActive = {}
    /\ gwStreams = 0
    /\ gwNSessions = 0
    /\ gwNObj = 0
    /\ gwNCalls = 0
    /\ gw = [s \in GwStarters |-> GwIdle]
    /\ gwCancelled = {}
    /\ gwSockClosed = {}
    /\ gwCl = [pc |-> "idle", client |-> None, tg |-> None, result |-> "none"]
    /\ gwApi = [call |-> "none", result |-> "none"]

InitRuntime ==
    /\ client = None
    /\ cancelScope = None
    /\ joinEvent = None
    /\ lastMessageId = ""
    /\ nSessions = 0
    /\ sockOpen = {}
    /\ sockCloses = [n \in SessionIds |-> 0]
    /\ cancelled = {}
    /\ eventSets = [n \in SessionIds |-> 0]
    /\ pc = [r \in Runners |-> "idle"]
    /\ sess = [r \in Runners |-> None]
    /\ leave = [r \in Runners |-> "none"]
    /\ result = [r \in Runners |-> "none"]
    /\ hb = [r \in Runners |-> NoHeartbeat]
    /\ childExc = [r \in Runners |-> FALSE]
    /\ cl = [c \in Closers |-> [pc |-> "idle", ev |-> None, call |-> "none"]]
    /\ tasks = [r \in Runners |-> {}]
    /\ sent = [r \in Runners |-> <<>>]
    /\ nFrames = 0
    /\ lastTexts = <<>>
    /\ emTaskGroup = None
    /\ emPc = "idle"
    /\ emCancelled = FALSE
    /\ nCalls = 0
    /\ apiResult = [call |-> "none", result |-> "none"]
    /\ nValues = 0
    /\ emTasks = {}
    /\ emChildExc = FALSE
    /\ emResult = "none"
    /\ botCloseScope = None
    /\ botIsClosing = FALSE
    /\ botJoinEvent = None
    /\ botEventSets = {}
    /\ restClient = None
    /\ nBotRuns = 0
    /\ bot = [b \in BotRunners |->
                [pc |-> "idle", run |-> None, call |-> "none", result |-> "none"]]
    /\ bcl = [k \in BotClosers |-> NoBotCall]
    /\ closeCalls = [ws |-> 0, em |-> 0, rest |-> 0]
    /\ GwInit

Init ==
    /\ InitRuntime
    /\ rawDispatchers = <<>>
    /\ streams = <<>>
    /\ emDispatchers = <<>>
    /\ netCallbacks = [cb \in Callbacks |-> 0]
    /\ subs = <<>>

\* ------------------------------------------------- WebSocketClient.run
\* A run without the check of _client of lines 214-215.
RunUnchecked(r) ==
    /\ pc[r] = "idle"
    /\ result' = [result EXCEPT ![r] = "none"]
    /\ pc' = [pc EXCEPT ![r] = "connecting"]
    /\ UNCHANGED <<client, cancelScope, joinEvent, lastMessageId,
                   nSessions, sockOpen, sockCloses,
                   cancelled, eventSets, sess, leave, hb,
                   childExc, cl, sent, nFrames, tasks,
                   lastTexts, fanVars, emVars, apiVars, botVars, gwVars>>

\* run, lines 214-217: the check of _client, then the suspension in
\* asyncwebsockets.create_websocket.  _client is still None while the
\* caller is suspended there.
Run(r) ==
    /\ pc[r] = "idle"
    /\ IF client # None
       THEN /\ result' = [result EXCEPT ![r] = "already running"]
            /\ pc' = pc
       ELSE /\ nSessions + Cardinality({q \in Runners : pc[q] = "connecting"})
                 < MaxSessions
            /\ result' = [result EXCEPT ![r] = "none"]
            /\ pc' = [pc EXCEPT ![r] = "connecting"]
    /\ UNCHANGED <<client, cancelScope, joinEvent, lastMessageId,
                   nSessions, sockOpen, sockCloses,
                   cancelled, eventSets, sess, leave, hb,
                   childExc, cl, sent, nFrames, tasks,
                   lastTexts, fanVars, emVars, apiVars, botVars, gwVars>>

\* run, lines 217-224: create_websocket returns; the socket, the join event
\* and the task group's scope are stored, and _keep_alive suspends in
\* _wait_for_hello's anext (no suspension point in between).
Connected(r) ==
    /\ pc[r] = "connecting"
    /\ LET n == nSessions + 1 IN
        /\ nSessions' = n
        /\ sockOpen' = sockOpen \cup {n}
        /\ client' = n
        /\ joinEvent' = n
        /\ cancelScope' = n
        /\ sess' = [sess EXCEPT ![r] = n]
    /\ pc' = [pc EXCEPT ![r] = "hello"]
    /\ leave' = [leave EXCEPT ![r] = "none"]
    /\ childExc' = [childExc EXCEPT ![r] = FALSE]
    /\ hb' = [hb EXCEPT ![r] = NoHeartbeat]
    /\ sent' = [sent EXCEPT ![r] = <<>>]
    /\ UNCHANGED <<lastMessageId, sockCloses, cancelled, eventSets,
                   result, cl, nFrames, tasks, lastTexts,
                   fanVars, emVars, apiVars, botVars, gwVars>>

\* _wait_for_hello, lines 164-173, when the first frame is a hello frame:
\* the last message id is recorded and the heartbeat task is started in the
\* session's task group; _keep_alive goes on to _receive_events.
Hello(r, intervalMs) ==
    /\ pc[r] = "hello"
    /\ sess[r] \notin cancelled
    /\ lastMessageId' = HelloMessageId
    /\ hb' = [hb EXCEPT ![r] = [st |-> "ready", timer |-> 0,
                                delay |-> HeartbeatDelay(intervalMs),
                                interval |-> intervalMs,
                                beats |-> 0, since |-> 0]]
    /\ pc' = [pc EXCEPT ![r] = "receiving"]
    /\ UNCHANGED <<client, cancelScope, joinEvent, nSessions,
                   sockOpen, sockCloses, cancelled,
                   eventSets, sess, leave, result, childExc,
                   cl, sent, nFrames, tasks, lastTexts,
                   fanVars, emVars, apiVars, botVars, gwVars>>

\* _wait_for_hello, lines 164-167, when the stream ends before a frame:
\* RuntimeError("Failed to connect") leaves the body of the task group
\* ("no hello"; "no hello, cancelled" once the cancellation raised in run's
\* finally has taken its place).
HelloMissing(r) ==
    /\ pc[r] = "hello"
    /\ sess[r] \notin cancelled
    /\ leave' = [leave EXCEPT ![r] = "no hello"]
    /\ pc' = [pc EXCEPT ![r] = "finally"]
    /\ UNCHANGED <<client, cancelScope, joinEvent, lastMessageId,
                   nSessions, sockOpen, sockCloses,
                   cancelled, eventSets, sess, result, hb,
                   childExc, cl, sent, nFrames, tasks,
                   lastTexts, fanVars, emVars, apiVars, botVars, gwVars>>

\* The anext of _wait_for_hello (164) or of _receive_events (136) is a
\* checkpoint: in a cancelled scope it raises the cancellation, which leaves
\* _keep_alive (only _Disconnect is caught there, 128) for run's finally.
BodyCancelled(r) ==
    /\ pc[r] \in {"hello", "receiving"}
    /\ sess[r] \in cancelled
    /\ leave' = [leave EXCEPT ![r] = "cancelled"]
    /\ pc' = [pc EXCEPT ![r] = "finally"]
    /\ UNCHANGED <<client, cancelScope, joinEvent, lastMessageId,
                   nSessions, sockOpen, sockCloses,
                   cancelled, eventSets, sess, result, hb,
                   childExc, cl, sent, nFrames, tasks,
                   lastTexts, fanVars, emVars, apiVars, botVars, gwVars>>

\* _receive_events, lines 138-144: anyio.EndOfStream ("eos", the connection
\* was lost) or StopAsyncIteration ("closed", a clean close) ends the loop
\* by a plain return; _keep_alive returns too (nothing raises _Disconnect,
\* so lines 128-130 never run) and run reaches its finally.
EndOfStream(r, why) ==
    /\ pc[r] = "receiving"
    /\ sess[r] \notin cancelled
    /\ leave' = [leave EXCEPT ![r] = why]
    /\ pc' = [pc EXCEPT ![r] = "finally"]
    /\ UNCHANGED <<client, cancelScope, joinEvent, lastMessageId,
                   nSessions, sockOpen, sockCloses,
                   cancelled, eventSets, sess, result, hb,
                   childExc, cl, sent, nFrames, tasks,
                   lastTexts, fanVars, emVars, apiVars, botVars, gwVars>>

\* run's finally, lines 226-231.  `await client.close()` sends the close
\* frame and closes the socket: in a cancelled scope its first checkpoint
\* raises the cancellation (the socket may or may not have been closed by
\* then) and lines 228-231 are skipped; a close that meets no checkpoint
\* completes.  Then the join event is set and the fields are cleared
\* (self._join_event.set() fails when the field is None already).  The
\* body is left for the task group's exit, which cancels the scope when an
\* exception that is not the cancellation leaves the body.
RunFinally(r) ==
    /\ pc[r] = "finally"
    /\ LET n == sess[r] IN
       \E interrupted \in (IF n \in cancelled THEN BOOLEAN ELSE {FALSE}) :
         IF interrupted
         THEN /\ \E closedAnyway \in BOOLEAN :
                   /\ sockOpen' = IF closedAnyway THEN sockOpen \ {n} ELSE sockOpen
                   /\ sockCloses' = IF closedAnyway
                                    THEN [sockCloses EXCEPT ![n] = @ + 1]
                                    ELSE sockCloses
              /\ leave' = [leave EXCEPT ![r] = IF @ = "no hello"
                                               THEN "no hello, cancelled"
                                               ELSE "cancelled"]
              /\ UNCHANGED <<client, cancelScope, joinEvent, eventSets,
                             cancelled>>
         ELSE /\ sockOpen' = sockOpen \ {n}
              /\ sockCloses' = [sockCloses EXCEPT ![n] = @ + 1]
              /\ IF joinEvent = None
                 THEN /\ leave' = [leave EXCEPT ![r] = "error"]
                      /\ cancelled' = cancelled \cup {n}
                      /\ UNCHANGED <<client, cancelScope, joinEvent, eventSets>>
                 ELSE /\ eventSets' = [eventSets EXCEPT ![joinEvent] = @ + 1]
                      /\ cancelScope' = None
                      /\ client' = None
                      /\ joinEvent' = None
                      /\ cancelled' = IF leave[r] \in {"error", "no hello"}
                                      THEN cancelled \cup {n} ELSE cancelled
                      /\ leave' = leave
    /\ pc' = [pc EXCEPT ![r] = "exiting"]
    /\ UNCHANGED <<lastMessageId, nSessions, sess, result, hb,
                   childExc, cl, sent, nFrames, tasks,
                   lastTexts, fanVars, emVars, apiVars, botVars, gwVars>>

\* run, line 221: the exit of `async with anyio.create_task_group()` waits
\* for the children, then run returns, or raises what the body or a child
\* raised (the scope's own cancellation is swallowed).
ExitTaskGroup(r) ==
    /\ pc[r] = "exiting"
    /\ ~HeartbeatAlive(r)
    /\ tasks[r] = {}
    /\ result' = [result EXCEPT ![r] =
                    IF leave[r] = "no hello" THEN "failed to connect"
                    ELSE IF leave[r] = "error" \/ childExc[r] THEN "raised"
                    ELSE "returned"]
    /\ pc' = [pc EXCEPT ![r] = "idle"]
    /\ UNCHANGED <<client, cancelScope, joinEvent, lastMessageId,
                   nSessions, sockOpen, sockCloses,
                   cancelled, eventSets, sess, leave, hb,
                   childExc, cl, sent, nFrames, tasks,
                   lastTexts, fanVars, emVars, apiVars, botVars, gwVars>>

\* ------------------------------------------------------------ heartbeat
\* _heartbeat, lines 115-118: send a ping, then sleep `delay`.  A send on a
\* socket that has been closed raises, which ends the task and cancels the
\* task group it is a child of.
HeartbeatPing(r) ==
    /\ HeartbeatDue(r)
    /\ sess[r] \notin cancelled
    /\ IF sess[r] \in sockOpen
       THEN /\ hb[r].beats < MaxBeats
            /\ sent' = [sent EXCEPT ![r] =
                          Append(@, [kind |-> SendRawEvent(PING), by |-> "heartbeat"])]
            /\ hb' = [hb EXCEPT ![r].st = "sleeping", ![r].timer = hb[r].delay,
                                ![r].beats = @ + 1, ![r].since = 0]
            /\ UNCHANGED <<childExc, cancelled>>
       ELSE /\ hb' = [hb EXCEPT ![r].st = "failed"]
            /\ childExc' = [childExc EXCEPT ![r] = TRUE]
            /\ cancelled' = cancelled \cup {sess[r]}
            /\ sent' = sent
    /\ UNCHANGED <<client, cancelScope, joinEvent, lastMessageId,
                   nSessions, sockOpen, sockCloses,
                   eventSets, pc, sess, leave, result, cl,
                   nFrames, tasks, lastTexts, fanVars,
                   emVars, apiVars, botVars, gwVars>>

\* _heartbeat, line 114 and the task group: the send and the sleep are
\* checkpoints, so a cancelled scope ends the task at once.
HeartbeatCancelled(r) ==
    /\ HeartbeatAlive(r)
    /\ sess[r] \in cancelled
    /\ hb' = [hb EXCEPT ![r].st = "cancelled"]
    /\ UNCHANGED <<client, cancelScope, joinEvent, lastMessageId,
                   nSessions, sockOpen, sockCloses,
                   cancelled, eventSets, pc, sess, leave,
                   result, childExc, cl, sent, nFrames,
                   tasks, lastTexts, fanVars, emVars, apiVars, botVars, gwVars>>

\* anyio.sleep(delay), line 118: a second passes for every sleeping
\* heartbeat (`since` counts the seconds since its last ping).  A task that
\* is ready to run runs before the clock moves.
Tick ==
    /\ \E r \in Runners : hb[r].st = "sleeping"
    /\ \A r \in Runners : ~HeartbeatDue(r)
    /\ hb' = [r \in Runners |->
                IF hb[r].st = "sleeping"
                THEN [hb[r] EXCEPT !.timer = @ - 1, !.since = @ + 1]
                ELSE hb[r]]
    /\ UNCHANGED <<client, cancelScope, joinEvent, lastMessageId,
                   nSessions, sockOpen, sockCloses,
                   cancelled, eventSets, pc, sess, leave,
                   result, childExc, cl, sent, nFrames,
                   tasks, lastTexts, fanVars, emVars, apiVars, botVars, gwVars>>

\* ------------------------------------------- WebSocketClient.close / join
\* close, lines 207-211, and join, lines 234-237, up to the suspension in
\* Event.wait(): the scope is cancelled, then the caller waits for the join
\* event the field holds at that moment.
Close(c) ==
    /\ cl[c].pc = "idle"
    /\ IF cancelScope = None
       THEN /\ cl' = [cl EXCEPT ![c].pc = "failed", ![c].call = "close"]
            /\ cancelled' = cancelled
       ELSE /\ cancelled' = cancelled \cup {cancelScope}
            /\ cl' = [cl EXCEPT ![c] =
                        IF joinEvent = None
                        THEN [pc |-> "failed", ev |-> None, call |-> "close"]
                        ELSE [pc |-> "waiting", ev |-> joinEvent, call |-> "close"]]
    /\ UNCHANGED <<client, cancelScope, joinEvent, lastMessageId,
                   nSessions, sockOpen, sockCloses,
                   eventSets, pc, sess, leave, result, hb,
                   childExc, sent, nFrames, tasks, lastTexts,
                   fanVars, emVars, apiVars, botVars, gwVars>>

\* A join that waits without the check of _join_event of lines 234-235.
JoinUnchecked(c) ==
    /\ cl[c].pc = "idle"
    /\ cl' = [cl EXCEPT ![c] = [pc |-> "waiting", ev |-> joinEvent, call |-> "join"]]
    /\ UNCHANGED <<client, cancelScope, joinEvent, lastMessageId,
                   nSessions, sockOpen, sockCloses, cancelled,
                   eventSets, pc, sess, leave, result, hb,
                   childExc, sent, nFrames, tasks, lastTexts,
                   fanVars, emVars, apiVars, botVars, gwVars>>

\* join called by the application, lines 233-237, up to the suspension in
\* Event.wait().
Join(c) ==
    /\ cl[c].pc = "idle"
    /\ cl' = [cl EXCEPT ![c] =
                IF joinEvent = None
                THEN [pc |-> "failed", ev |-> None, call |-> "join"]
                ELSE [pc |-> "waiting", ev |-> joinEvent, call |-> "join"]]
    /\ UNCHANGED <<client, cancelScope, joinEvent, lastMessageId,
                   nSessions, sockOpen, sockCloses, cancelled,
                   eventSets, pc, sess, leave, result, hb,
                   childExc, sent, nFrames, tasks, lastTexts,
                   fanVars, emVars, apiVars, botVars, gwVars>>

\* join, line 237: Event.wait() returns once the event has been set.
CloseReturns(c) ==
    /\ cl[c].pc = "waiting"
    /\ eventSets[cl[c].ev] > 0
    /\ cl' = [cl EXCEPT ![c].pc = "returned"]
    /\ UNCHANGED <<client, cancelScope, joinEvent, lastMessageId,
                   nSessions, sockOpen, sockCloses,
                   cancelled, eventSets, pc, sess, leave,
                   result, hb, childExc, sent, nFrames,
                   tasks, lastTexts, fanVars, emVars, apiVars, botVars, gwVars>>

\* ---------------------------------------------------------- receive loop
ControlFrames == {[kind |-> "ping"], [kind |-> "pong"], [kind |-> "bytes"]}

\* _receive_events, lines 146-159, for a frame that is not a text frame: a
\* ping is answered through _send_raw_event(ws, _PONG), the others are
\* logged.
ReceiveControl(r, f) ==
    /\ pc[r] = "receiving"
    /\ sess[r] \notin cancelled
    /\ nFrames < MaxFrames
    /\ nFrames' = nFrames + 1
    /\ sent' = IF f.kind = "ping"
               THEN [sent EXCEPT ![r] =
                       Append(@, [kind |-> SendRawEvent(PONG), by |-> "reply"])]
               ELSE sent
    /\ UNCHANGED <<client, cancelScope, joinEvent, lastMessageId,
                   nSessions, sockOpen, sockCloses,
                   cancelled, eventSets, pc, sess, leave,
                   result, hb, childExc, cl, tasks, lastTexts, fanVars,
                   emVars, apiVars, botVars, gwVars>>

\* ------------------------------------------------------------ Dispatchable
\* list.remove(x): the list without its first element equal to x.
RECURSIVE RemoveFirst(_, _)
RemoveFirst(seq, x) ==
    IF seq = <<>> THEN <<>>
    ELSE IF Head(seq) = x THEN Tail(seq)
    ELSE <<Head(seq)>> \o RemoveFirst(Tail(seq), x)

\* A dispatch that sends to a full buffer all the same.
RECURSIVE DispatchStreamsOverfill(_, _, _, _)
DispatchStreamsOverfill(copy, live, sts, value) ==
    IF copy = <<>> THEN [streams |-> live, sts |-> sts]
    ELSE LET id == Head(copy) IN
         IF ~sts[id].open
         THEN DispatchStreamsOverfill(Tail(copy), RemoveFirst(live, id), sts, value)
         ELSE DispatchStreamsOverfill(Tail(copy), live,
                  [sts EXCEPT ![id].buf = Append(@, value)], value)

\* A dispatch that makes room in a full buffer by dropping its oldest item.
RECURSIVE DispatchStreamsKeepNewest(_, _, _, _)
DispatchStreamsKeepNewest(copy, live, sts, value) ==
    IF copy = <<>> THEN [streams |-> live, sts |-> sts]
    ELSE LET id == Head(copy) IN
         IF ~sts[id].open
         THEN DispatchStreamsKeepNewest(Tail(copy), RemoveFirst(live, id), sts, value)
         ELSE IF Len(sts[id].buf) >= sts[id].cap
         THEN DispatchStreamsKeepNewest(Tail(copy), live,
                  [sts EXCEPT ![id].buf = Append(Tail(@), value)], value)
         ELSE DispatchStreamsKeepNewest(Tail(copy), live,
                  [sts EXCEPT ![id].buf = Append(@, value)], value)

\* A dispatch whose loop ends at the first closed stream it removes.
RECURSIVE DispatchStreamsStopAtClosed(_, _, _, _)
DispatchStreamsStopAtClosed(copy, live, sts, value) ==
    IF copy = <<>> THEN [streams |-> live, sts |-> sts]
    ELSE LET id == Head(copy) IN
         IF ~sts[id].open
         THEN [streams |-> RemoveFirst(live, id), sts |-> sts]
         ELSE IF Len(sts[id].buf) >= sts[id].cap
         THEN DispatchStreamsStopAtClosed(Tail(copy), live, sts, value)
         ELSE DispatchStreamsStopAtClosed(Tail(copy), live,
                  [sts EXCEPT ![id].buf = Append(@, value)], value)

\* Dispatchable.dispatch, lines 89-97: over a copy of _streams, send_nowait
\* to each; a closed or broken stream is removed from _streams, a full one
\* is skipped.  `copy` is what is left of the copy, `live` the list itself.
RECURSIVE DispatchStreams(_, _, _, _)
DispatchStreams(copy, live, sts, value) ==
    IF copy = <<>> THEN [streams |-> live, sts |-> sts]
    ELSE LET id == Head(copy) IN
         IF ~sts[id].open
         THEN DispatchStreams(Tail(copy), RemoveFirst(live, id), sts, value)
         ELSE IF Len(sts[id].buf) >= sts[id].cap
         THEN DispatchStreams(Tail(copy), live, sts, value)
         ELSE DispatchStreams(Tail(copy), live,
                              [sts EXCEPT ![id].buf = Append(@, value)], value)

\* A dispatch that starts the first callback only.
StartCallbacksFirstOnly(d, value) ==
    {[cb |-> d.callbacks[i], val |-> value, pos |-> i] :
        i \in 1..Min(1, Len(d.callbacks))}

\* Dispatchable.dispatch, lines 99-100: one task per registered callback.
StartCallbacks(d, value) ==
    {[cb |-> d.callbacks[i], val |-> value, pos |-> i] : i \in 1..Len(d.callbacks)}

\* Dispatchable.dispatch, lines 88-100.
DispatchableDispatch(d, sts, value) ==
    LET out == DispatchStreams(d.streams, d.streams, sts, value) IN
    [d |-> [d EXCEPT !.streams = out.streams],
     sts |-> out.sts,
     started |-> StartCallbacks(d, value)]

\* An is_empty that looks at the callbacks only.
IsEmptyCallbacksOnly(d) == d.callbacks = <<>>

\* property is_empty, lines 65-67.
IsEmpty(d) == d.callbacks = <<>> /\ d.streams = <<>>

\* add_callback, lines 69-70.
AddCallback(d, cb) == [d EXCEPT !.callbacks = Append(@, cb)]

\* list.remove(x) raises ValueError when x is not in the list.
Has(seq, x) == \E i \in 1..Len(seq) : seq[i] = x

\* The sequence without any element equal to x.
RECURSIVE RemoveAll(_, _)
RemoveAll(seq, x) ==
    IF seq = <<>> THEN <<>>
    ELSE IF Head(seq) = x THEN RemoveAll(Tail(seq), x)
    ELSE <<Head(seq)>> \o RemoveAll(Tail(seq), x)

\* A remove_callback that removes every registration of the callback.
RemoveCallbackAll(d, cb) ==
    [d |-> [d EXCEPT !.callbacks = RemoveAll(@, cb)],
     raised |-> ~Has(d.callbacks, cb)]

\* remove_callback, lines 75-76: the Dispatchable after it and whether
\* list.remove raised.
RemoveCallback(d, cb) ==
    [d |-> [d EXCEPT !.callbacks = RemoveFirst(@, cb)],
     raised |-> ~Has(d.callbacks, cb)]

\* stream, lines 78-81: the send end of the new memory object stream `id`
\* is appended to _streams.
SubscribeFirst(d, id) == [d EXCEPT !.streams = <<id>> \o @]
Subscribe(d, id) == [d EXCEPT !.streams = Append(@, id)]

\* anyio.create_memory_object_stream(buffer_size), line 79.
NewStream(size) == [buf |-> <<>>, cap |-> size, open |-> TRUE]

\* Dispatchable(): no callbacks, no streams (lines 62-63).
NewDispatchable == [callbacks |-> <<>>, streams |-> <<>>]

\* _get_or_create_dispatchable (event_manager.py 147-155, websocket.py
\* 239-249), the assignment map[key] = d, and del map[key].
GetOrCreate(map, key) == IF key \in DOMAIN map THEN map[key] ELSE NewDispatchable
Put(map, key, d) == [k \in DOMAIN map \cup {key} |-> IF k = key THEN d ELSE map[k]]
DelNothing(map, key) == map
Del(map, key) ==
    IF DOMAIN map \subseteq {key} THEN <<>>
    ELSE [k \in DOMAIN map \ {key} |-> map[k]]

\* ------------------------------------------------------------ EventManager
\* Marshaller.unmarshall_message, impl/marshaller.py lines 91-102, on the
\* set of fields the message object has: whether every field it reads with
\* data[...] is there.
MessageOk(data) ==
    /\ {"id", "channelId", "content", "createdAt"} \subseteq data
    /\ data \cap {"createdByWebhookId", "createdByBotId", "createdBy"} # {}

\* The names __post_init__ (lines 142-145) finds listeners for.
RawListenerNames ==
    {"ChatMessageCreated", "ChatMessageUpdated", "ChatMessageDeleted", "TeamXpAdded"}

\* uuid.UUID(text): the UUID a string spells, whatever the case of its
\* letters; a string that spells none raises ValueError (None here).
ParseUuid(text) ==
    CASE text \in {"u1", "U1"} -> 1
      [] text \in {"u2", "U2"} -> 2
      [] text \in {"u3", "U3"} -> 3
      [] OTHER -> None

\* ciso8601.parse_datetime(text): the instant an ISO 8601 string spells;
\* a string that spells none raises ValueError (None here).
ParseDatetime(text) ==
    CASE text \in {"2022-01-01T00:00:00Z", "2022-01-01T00:00:00+00:00"} -> 1640995200
      [] OTHER -> None

\* The conversion handlers, lines 231-252: whether the handler raises (a
\* field it reads is missing) and the typed event it returns.
RawListener(name, value) ==
    LET payload == value.d IN
    CASE name \in {"ChatMessageCreated", "ChatMessageUpdated"} ->
           IF "message" \in DOMAIN payload /\ MessageOk(payload.message)
           THEN [raised |-> FALSE,
                 event |-> [type |-> IF name = "ChatMessageCreated"
                                     THEN "MessageCreatedEvent"
                                     ELSE "MessageUpdatedEvent",
                            n |-> value.n, message |-> payload.message]]
           ELSE [raised |-> TRUE]
      [] name = "ChatMessageDeleted" ->
           \* line 241 rebinds payload to payload["message"]
           IF /\ "message" \in DOMAIN payload
              /\ {"id", "channelId", "deletedAt"} \subseteq DOMAIN payload.message
              /\ ParseUuid(payload.message.id) # None
              /\ ParseUuid(payload.message.channelId) # None
              /\ ParseDatetime(payload.message.deletedAt) # None
           THEN [raised |-> FALSE,
                 event |-> [type |-> "MessageDeletedEvent", n |-> value.n,
                            message_id |-> ParseUuid(payload.message.id),
                            channel_id |-> ParseUuid(payload.message.channelId),
                            deleted_at |-> ParseDatetime(payload.message.deletedAt)]]
           ELSE [raised |-> TRUE]
      [] name = "TeamXpAdded" ->
           IF {"userIds", "amount"} \subseteq DOMAIN payload
           THEN [raised |-> FALSE,
                 event |-> [type |-> "TeamXpAddedEvent", n |-> value.n]]
           ELSE [raised |-> TRUE]

\* The class an event class derives from (events/_messages.py): the message
\* events derive from MessageEvent; AppCreatedEvent is a class the
\* application derives from MessageCreatedEvent.
Base(type) ==
    CASE type = "AppCreatedEvent" -> "MessageCreatedEvent"
      [] type \in {"MessageCreatedEvent", "MessageUpdatedEvent", "MessageDeletedEvent"} ->
           "MessageEvent"
      [] OTHER -> "BaseEvent"

\* A dispatch that looks the Dispatchable up by the base class of the event.
EmDispatchByBase(event, disp, sts) ==
    IF Base(event.type) \notin DOMAIN disp
    THEN [raised |-> FALSE, disp |-> disp, sts |-> sts, started |-> {}]
    ELSE IF emTaskGroup = None
    THEN [raised |-> TRUE, disp |-> disp, sts |-> sts, started |-> {}]
    ELSE LET out == DispatchableDispatch(disp[Base(event.type)], sts, event)
             active == emPc # "idle"
         IN [raised |-> ~active /\ out.started # {},
             disp |-> [disp EXCEPT ![Base(event.type)] = out.d],
             sts |-> out.sts,
             started |-> IF active THEN out.started ELSE {}]

\* BaseEventManager.dispatch, lines 174-176, with get_task_group (168-172)
\* evaluated before Dispatchable.dispatch is entered; start_soon on a task
\* group that has exited raises.
EmDispatch(event, disp, sts) ==
    IF event.type \notin DOMAIN disp
    THEN [raised |-> FALSE, disp |-> disp, sts |-> sts, started |-> {}]
    ELSE IF emTaskGroup = None
    THEN [raised |-> TRUE, disp |-> disp, sts |-> sts, started |-> {}]
    ELSE LET out == DispatchableDispatch(disp[event.type], sts, event)
             active == emPc # "idle"
         IN [raised |-> ~active /\ out.started # {},
             disp |-> [disp EXCEPT ![event.type] = out.d],
             sts |-> out.sts,
             started |-> IF active THEN out.started ELSE {}]

\* A dispatch_raw that fails on a name it has no handler for.
EmDispatchRawStrict(name, value, disp, sts) ==
    IF name \notin RawListenerNames
    THEN [raised |-> TRUE, disp |-> disp, sts |-> sts, started |-> {}]
    ELSE LET res == RawListener(name, value) IN
         IF res.raised
         THEN [raised |-> TRUE, disp |-> disp, sts |-> sts, started |-> {}]
         ELSE EmDispatch(res.event, disp, sts)

\* BaseEventManager.dispatch_raw, lines 178-181.
EmDispatchRaw(name, value, disp, sts) ==
    IF name \notin RawListenerNames
    THEN [raised |-> FALSE, disp |-> disp, sts |-> sts, started |-> {}]
    ELSE LET res == RawListener(name, value) IN
         IF res.raised
         THEN [raised |-> TRUE, disp |-> disp, sts |-> sts, started |-> {}]
         ELSE EmDispatch(res.event, disp, sts)

\* BaseEventManager.run, lines 160-166, up to the suspension in
\* sleep_forever.  _task_group is never reset.
EmRun ==
    /\ emPc = "idle"
    /\ IF emTaskGroup # None
       THEN /\ emResult' = "already running"
            /\ UNCHANGED <<emTaskGroup, emPc, emCancelled, emChildExc>>
       ELSE /\ emTaskGroup' = 1
            /\ emPc' = "running"
            /\ emCancelled' = FALSE
            /\ emChildExc' = FALSE
            /\ emResult' = "none"
    /\ UNCHANGED <<wsVars, fanVars, apiVars, emTasks, botVars, gwVars>>

\* BaseEventManager.close, lines 157-158 (get_task_group raises when the
\* manager never ran).
EmClose ==
    /\ emTaskGroup # None
    /\ emCancelled' = TRUE
    /\ UNCHANGED <<wsVars, fanVars, apiVars, emTaskGroup, emPc, emTasks, emChildExc, emResult, botVars, gwVars>>

\* run, line 166: sleep_forever is a checkpoint of the cancelled scope.
EmSleepCancelled ==
    /\ emPc = "running"
    /\ emCancelled
    /\ emPc' = "exiting"
    /\ UNCHANGED <<wsVars, fanVars, apiVars, emTaskGroup, emCancelled, emTasks, emChildExc, emResult, botVars, gwVars>>

\* run, line 165: the task group exits when its children have finished and
\* re-raises what a child raised.
EmExit ==
    /\ emPc = "exiting"
    /\ emTasks = {}
    /\ emPc' = "idle"
    /\ emResult' = IF emChildExc THEN "raised" ELSE "returned"
    /\ UNCHANGED <<wsVars, fanVars, apiVars, emTaskGroup, emCancelled, emTasks, emChildExc, botVars, gwVars>>

\* A callback task of the manager's group (dispatch line 100) returns,
\* raises, or is cancelled at a checkpoint of the cancelled scope.  A child
\* that raises cancels the group.
EmCallbackReturns(t) ==
    /\ t \in emTasks
    /\ emTasks' = emTasks \ {t}
    /\ UNCHANGED <<wsVars, fanVars, apiVars, emTaskGroup, emPc, emCancelled, emChildExc, emResult, botVars, gwVars>>

EmCallbackRaises(t) ==
    /\ t \in emTasks
    /\ emTasks' = emTasks \ {t}
    /\ emChildExc' = TRUE
    /\ emCancelled' = TRUE
    /\ UNCHANGED <<wsVars, fanVars, apiVars, emTaskGroup, emPc, emResult, botVars, gwVars>>

EmCallbackCancelled(t) ==
    /\ t \in emTasks
    /\ emCancelled
    /\ emTasks' = emTasks \ {t}
    /\ UNCHANGED <<wsVars, fanVars, apiVars, emTaskGroup, emPc, emCancelled, emChildExc, emResult, botVars, gwVars>>

\* ------------------------------------- the application's calls (manager)
\* The event types and buffer sizes the application uses.
EventTypes == {"MessageCreatedEvent"}
BufferSizes == {1, 2}

\* BaseEventManager.add_listener, lines 188-195.
EmAddListener(type, cb) ==
    /\ nCalls < MaxCalls
    /\ emDispatchers' =
         Put(emDispatchers, type, AddCallback(GetOrCreate(emDispatchers, type), cb))
    /\ netCallbacks' = [netCallbacks EXCEPT ![cb] = @ + 1]
    /\ apiResult' = [call |-> "add_listener", result |-> "ok"]
    /\ nCalls' = nCalls + 1
    /\ UNCHANGED <<wsVars, emVars, rawDispatchers, streams, nValues, subs, botVars, gwVars>>

\* BaseEventManager.remove_listener, lines 211-220: KeyError when the type
\* has no entry, ValueError of list.remove when the callback is not there;
\* the entry is deleted when the Dispatchable is left empty.
EmRemoveListener(type, cb) ==
    /\ nCalls < MaxCalls
    /\ nCalls' = nCalls + 1
    /\ netCallbacks' = [netCallbacks EXCEPT ![cb] = IF @ > 0 THEN @ - 1 ELSE 0]
    /\ IF type \notin DOMAIN emDispatchers
       THEN /\ apiResult' = [call |-> "remove_listener", result |-> "KeyError"]
            /\ UNCHANGED emDispatchers
       ELSE LET out == RemoveCallback(emDispatchers[type], cb) IN
            IF out.raised
            THEN /\ apiResult' = [call |-> "remove_listener", result |-> "ValueError"]
                 /\ UNCHANGED emDispatchers
            ELSE /\ apiResult' = [call |-> "remove_listener", result |-> "ok"]
                 /\ emDispatchers' = IF IsEmpty(out.d)
                                     THEN Del(emDispatchers, type)
                                     ELSE Put(emDispatchers, type, out.d)
    /\ UNCHANGED <<wsVars, emVars, rawDispatchers, streams, nValues, subs, botVars, gwVars>>

\* BaseEventManager.stream, lines 183-186: a new memory object stream whose
\* send end joins the Dispatchable of the type.
EmStream(type, size) ==
    /\ nCalls < MaxCalls
    /\ nCalls' = nCalls + 1
    /\ LET id == Len(streams) + 1 IN
        /\ streams' = Append(streams, NewStream(size))
        /\ emDispatchers' =
             Put(emDispatchers, type, Subscribe(GetOrCreate(emDispatchers, type), id))
        /\ subs' = Append(subs, NewSub("em", type))
    /\ apiResult' = [call |-> "stream", result |-> "ok"]
    /\ UNCHANGED <<wsVars, emVars, rawDispatchers, nValues, netCallbacks, botVars, gwVars>>

\* What `subs` holds after the event was handed to dispatch.
Offered(event) ==
    [id \in DOMAIN subs |->
       IF subs[id].side # "em" \/ subs[id].type # event.type
          \/ ~subs[id].listed \/ emTaskGroup = None
       THEN subs[id]
       ELSE IF streams[id].open
       THEN [subs[id] EXCEPT !.offered = Append(@, event)]
       ELSE [subs[id] EXCEPT !.listed = FALSE]]

\* The application calls BaseEventManager.dispatch (lines 174-176) with a
\* new event of the type.  `subs` notes, apart from the Dispatchable, what
\* the call offers to whom: nothing when the manager has no task group to
\* give, else the event to every subscriber of the type that is open, and a
\* closed subscriber is no longer one.
EmDispatchCall(type) ==
    /\ nCalls < MaxCalls
    /\ nCalls' = nCalls + 1
    /\ nValues' = nValues + 1
    /\ LET event == [type |-> type, n |-> nValues + 1]
           out == EmDispatch(event, emDispatchers, streams)
       IN
        /\ emDispatchers' = out.disp
        /\ streams' = out.sts
        /\ emTasks' = emTasks \cup out.started
        /\ apiResult' =
             [call |-> "dispatch",
              result |-> IF ~out.raised THEN "ok"
                         ELSE IF emTaskGroup = None THEN "not active"
                         ELSE "task group not active"]
        /\ subs' = Offered(event)
    /\ UNCHANGED <<wsVars, rawDispatchers, netCallbacks, emTaskGroup, emPc,
                   emCancelled, emChildExc, emResult, botVars, gwVars>>

\* The application calls BaseEventManager.dispatch_raw (lines 178-181) with
\* an event name and a payload.
EmDispatchRawCall(name, d) ==
    /\ nCalls < MaxCalls
    /\ nCalls' = nCalls + 1
    /\ nValues' = nValues + 1
    /\ LET value == [n |-> nValues + 1, d |-> d]
           out == EmDispatchRaw(name, value, emDispatchers, streams)
           handled == name \in RawListenerNames
           res == IF handled THEN RawListener(name, value) ELSE [raised |-> FALSE]
       IN
        /\ emDispatchers' = out.disp
        /\ streams' = out.sts
        /\ emTasks' = emTasks \cup out.started
        /\ apiResult' =
             [call |-> "dispatch_raw",
              result |-> IF ~out.raised THEN "ok"
                         ELSE IF res.raised THEN "handler raised"
                         ELSE IF emTaskGroup = None THEN "not active"
                         ELSE "task group not active"]
        /\ subs' = IF handled /\ ~res.raised THEN Offered(res.event) ELSE subs
    /\ UNCHANGED <<wsVars, rawDispatchers, netCallbacks, emTaskGroup, emPc,
                   emCancelled, emChildExc, emResult, botVars, gwVars>>

\* The subscriber closes its receive end (MemoryObjectReceiveStream.close):
\* send_nowait on the send end then raises BrokenResourceError.
StreamClose(id) ==
    /\ nCalls < MaxCalls
    /\ nCalls' = nCalls + 1
    /\ id \in DOMAIN streams
    /\ streams[id].open
    /\ streams' = [streams EXCEPT ![id].open = FALSE]
    /\ apiResult' = [call |-> "close", result |-> "ok"]
    /\ UNCHANGED <<wsVars, emVars, rawDispatchers, emDispatchers, nValues,
                   netCallbacks, subs, botVars, gwVars>>

\* The subscriber takes the oldest item of its buffer (receive).
StreamReceive(id) ==
    /\ nCalls < MaxCalls
    /\ nCalls' = nCalls + 1
    /\ id \in DOMAIN streams
    /\ streams[id].open
    /\ streams[id].buf # <<>>
    /\ streams' = [streams EXCEPT ![id].buf = Tail(@)]
    /\ subs' = [subs EXCEPT ![id].taken = @ + 1]
    /\ apiResult' = [call |-> "receive", result |-> "ok"]
    /\ UNCHANGED <<wsVars, emVars, rawDispatchers, emDispatchers, nValues,
                   netCallbacks, botVars, gwVars>>

\* ------------------------------------------------------- _handle_message
NoOp == -1    \* payload.get("op") of an envelope without "op"

\* dict.get(key, default)
Get(env, key, default) == IF key \in DOMAIN env THEN env[key] ELSE default

\* An opcode test that lets every envelope through.
IsDispatchAny(env) == TRUE

\* _handle_message, lines 192-194: opcode == 0 (None when "op" is absent).
IsDispatch(env) == Get(env, "op", NoOp) = 0

\* A json.loads that fails with the handler removed from around it.
DecodeErrorRaises(st) == [st EXCEPT !.raised = TRUE]

\* _handle_message, lines 181-187: the failure of json.loads is logged and
\* the frame is dropped.
DecodeError(st) == st

\* A last message id taken from dispatch envelopes only.
NextMessageIdDispatchOnly(env, mid) ==
    IF IsDispatch(env) /\ Get(env, "s", "") # "" THEN env.s ELSE mid

\* _handle_message, lines 189-190: `if last_message_id := payload.get("s")`
\* (an absent or empty "s" is falsy and leaves the field as it is).
NextMessageId(env, mid) ==
    IF Get(env, "s", "") # "" THEN env.s ELSE mid

\* _handle_message, lines 178-204, for frame number k: the new last message
\* id, dispatcher maps and streams, the callback tasks started in the
\* session's and in the manager's task group, and whether it raised.  The
\* client holds an event manager, as the bot constructs it (bot.py 95).
HandleMessage(f, k) ==
    LET same == [mid |-> lastMessageId, raw |-> rawDispatchers, sts |-> streams,
                 started |-> {}, disp |-> emDispatchers, emStarted |-> {},
                 raised |-> FALSE]
    IN
    IF f.json # "ok" THEN DecodeError(same)
    ELSE
      LET env == f.env
          withS == [same EXCEPT !.mid = NextMessageId(env, lastMessageId)]
      IN
      IF ~IsDispatch(env) THEN withS
      ELSE IF "t" \notin DOMAIN env \/ "d" \notin DOMAIN env
      THEN [withS EXCEPT !.raised = TRUE]
      ELSE
        LET name == env.t
            value == [n |-> k, d |-> env.d]
            listened == name \in DOMAIN rawDispatchers
            rawOut == DispatchableDispatch(
                        IF listened THEN rawDispatchers[name]
                        ELSE [callbacks |-> <<>>, streams |-> <<>>],
                        streams, value)
            raw1 == IF listened THEN [rawDispatchers EXCEPT ![name] = rawOut.d]
                    ELSE rawDispatchers
            emOut == EmDispatchRaw(name, value, emDispatchers, rawOut.sts)
        IN [mid |-> withS.mid, raw |-> raw1, sts |-> emOut.sts,
            started |-> rawOut.started, disp |-> emOut.disp,
            emStarted |-> emOut.started, raised |-> emOut.raised]

\* _receive_events, lines 147-148, for a text frame.  What _handle_message
\* raises leaves _receive_events and _keep_alive for run's finally.
ReceiveText(r, f) ==
    /\ pc[r] = "receiving"
    /\ sess[r] \notin cancelled
    /\ nFrames < MaxFrames
    /\ LET out == HandleMessage(f, nFrames + 1) IN
        /\ lastMessageId' = out.mid
        /\ rawDispatchers' = out.raw
        /\ streams' = out.sts
        /\ emDispatchers' = out.disp
        /\ tasks' = [tasks EXCEPT ![r] = @ \cup out.started]
        /\ emTasks' = emTasks \cup out.emStarted
        /\ IF out.raised
           THEN /\ leave' = [leave EXCEPT ![r] = "error"]
                /\ pc' = [pc EXCEPT ![r] = "finally"]
           ELSE UNCHANGED <<leave, pc>>
    /\ nFrames' = nFrames + 1
    /\ lastTexts' = LastTwo(Append(lastTexts, f))
    /\ UNCHANGED <<client, cancelScope, joinEvent, nSessions, sockOpen,
                   sockCloses, cancelled, eventSets, sess, result, hb,
                   childExc, cl, sent, emTaskGroup, emPc, emCancelled,
                   emChildExc, emResult, apiVars, botVars, gwVars>>

\* A raw callback task of the session's group (dispatch line 100) returns,
\* raises, or is cancelled at a checkpoint of the cancelled scope.  A child
\* that raises cancels the group.
CallbackReturns(r, t) ==
    /\ t \in tasks[r]
    /\ tasks' = [tasks EXCEPT ![r] = @ \ {t}]
    /\ UNCHANGED <<client, cancelScope, joinEvent, lastMessageId, nSessions,
                   sockOpen, sockCloses, cancelled, eventSets, pc, sess,
                   leave, result, hb, childExc, cl, sent, nFrames,
                   lastTexts, fanVars, emVars, apiVars, botVars, gwVars>>

CallbackRaises(r, t) ==
    /\ t \in tasks[r]
    /\ tasks' = [tasks EXCEPT ![r] = @ \ {t}]
    /\ childExc' = [childExc EXCEPT ![r] = TRUE]
    /\ cancelled' = cancelled \cup {sess[r]}
    /\ UNCHANGED <<client, cancelScope, joinEvent, lastMessageId, nSessions,
                   sockOpen, sockCloses, eventSets, pc, sess, leave, result,
                   hb, cl, sent, nFrames, lastTexts, fanVars, emVars, apiVars, botVars, gwVars>>

CallbackCancelled(r, t) ==
    /\ t \in tasks[r]
    /\ sess[r] \in cancelled
    /\ tasks' = [tasks EXCEPT ![r] = @ \ {t}]
    /\ UNCHANGED <<client, cancelScope, joinEvent, lastMessageId, nSessions,
                   sockOpen, sockCloses, cancelled, eventSets, pc, sess,
                   leave, result, hb, childExc, cl, sent, nFrames,
                   lastTexts, fanVars, emVars, apiVars, botVars, gwVars>>

\* The callers of the lifecycle specification: one task runs the
\* connection, the other calls run only while a session is connected; the
\* second closer calls after the first (the two are interchangeable).
MayRun(r) == r = "r1" \/ client # None
MayClose(c) == c = "c1" \/ cl["c1"].pc # "idle"

Next ==
    \/ \E r \in Runners : MayRun(r) /\ Run(r)
    \/ \E r \in Runners : Connected(r)
    \/ \E r \in Runners, i \in HelloIntervals : Hello(r, i)
    \/ \E r \in Runners : HelloMissing(r)
    \/ \E r \in Runners : BodyCancelled(r)
    \/ \E r \in Runners, why \in {"eos", "closed"} : EndOfStream(r, why)
    \/ \E r \in Runners : RunFinally(r)
    \/ \E r \in Runners : ExitTaskGroup(r)
    \/ \E r \in Runners : HeartbeatPing(r)
    \/ \E r \in Runners : HeartbeatCancelled(r)
    \/ Tick
    \/ \E c \in Closers : MayClose(c) /\ Close(c)
    \/ \E c \in Closers : CloseReturns(c)
    \/ \E r \in Runners, f \in ControlFrames : ReceiveControl(r, f)

Spec == Init /\ [][Next]_vars

\* ------------------------------------------------------------ WebSocketBot
\* property is_running, bot.py line 103.
BotIsRunning == botCloseScope # None

\* A run without the check of _close_scope of lines 182-183.
BotRunUnchecked(b, call) ==
    /\ bot[b].pc = "idle"
    /\ LET n == nBotRuns + 1 IN
        /\ nBotRuns' = n
        /\ botJoinEvent' = n
        /\ restClient' = n
        /\ botCloseScope' = n
        /\ bot' = [bot EXCEPT ![b] =
                     [pc |-> "waiting", run |-> n, call |-> call, result |-> "none"]]
        /\ UNCHANGED <<botEventSets, botIsClosing>>
    /\ UNCHANGED <<wsVars, fanVars, emVars, apiVars, bcl, closeCalls, gwVars>>

\* WebSocketBot.run, lines 182-201, and run_blocking, lines 258-271, which
\* makes the same check and then runs run: the check of _close_scope; the
\* join event; RestClient.start (rest.py 150-153; it raises when the REST
\* client is started already, and the finally of lines 203-207 runs); the
\* task group, whose scope is stored and in which the event manager's run
\* and the connection's run are started.  The caller then waits in the exit
\* of the task group.  Nothing suspends in between.
BotRun(b, call) ==
    /\ bot[b].pc = "idle"
    /\ IF botCloseScope # None
       THEN /\ bot' = [bot EXCEPT ![b].result = "Bot is already running",
                                  ![b].call = call]
            /\ UNCHANGED <<nBotRuns, botJoinEvent, restClient, botCloseScope,
                           botEventSets, botIsClosing>>
       ELSE LET n == nBotRuns + 1 IN
            /\ nBotRuns' = n
            /\ IF restClient # None
               THEN /\ botEventSets' = botEventSets \cup {n}
                    /\ botJoinEvent' = None
                    /\ botCloseScope' = None
                    /\ botIsClosing' = FALSE
                    /\ restClient' = restClient
                    /\ bot' = [bot EXCEPT ![b] =
                                 [pc |-> "idle", run |-> n, call |-> call,
                                  result |-> "Client is already running"]]
               ELSE /\ botJoinEvent' = n
                    /\ restClient' = n
                    /\ botCloseScope' = n
                    /\ bot' = [bot EXCEPT ![b] =
                                 [pc |-> "waiting", run |-> n, call |-> call,
                                  result |-> "none"]]
                    /\ UNCHANGED <<botEventSets, botIsClosing>>
    /\ UNCHANGED <<wsVars, fanVars, emVars, apiVars, bcl, closeCalls, gwVars>>

\* The children of the bot's task group, as they end: the connection's run
\* and the event manager's run have returned or raised.
WsChildDone == pc["r1"] = "idle" /\ result["r1"] # "none"
WsChildRaised == WsChildDone /\ result["r1"] # "returned"
EmChildDone == emPc = "idle" /\ emResult # "none"
EmChildRaised == EmChildDone /\ emResult # "returned"

\* run, lines 200-201: both children are scheduled when run suspends in the
\* exit of the task group, and each runs up to its first suspension
\* (sleep_forever, line 166 of event_manager.py; create_websocket, line
\* 217 of websocket.py) before the event loop waits for I/O: the manager
\* holds its task group by the time the socket is established.
ManagerStarted == emTaskGroup # None

\* A child of the bot's task group that raised cancels the group's scope:
\* the anext of the connection's session is a checkpoint inside it.
BotScopeCancelsWs ==
    /\ \E b \in BotRunners : bot[b].pc = "waiting"
    /\ emChildExc
    /\ EmChildRaised
    /\ pc["r1"] \in {"hello", "receiving"}
    /\ sess["r1"] \notin cancelled
    /\ cancelled' = cancelled \cup {sess["r1"]}
    /\ UNCHANGED <<client, cancelScope, joinEvent, lastMessageId,
                   nSessions, sockOpen, sockCloses, eventSets, pc, sess, leave,
                   result, hb, childExc, cl, tasks, sent, nFrames, lastTexts,
                   fanVars, emVars, apiVars, botVars, gwVars>>

\* A child of the bot's task group that raised cancels the group's scope:
\* the sleep_forever of the event manager's run is a checkpoint inside it.
BotScopeCancelsEm ==
    /\ \E b \in BotRunners : bot[b].pc = "waiting"
    /\ WsChildRaised
    /\ emPc = "running"
    /\ ~emCancelled
    /\ emCancelled' = TRUE
    /\ UNCHANGED <<wsVars, fanVars, apiVars, botVars, emTaskGroup, emPc, emTasks,
                   emChildExc, emResult, gwVars>>

\* run, lines 199-207: the task group exits once both children have ended;
\* the finally sets the join event and clears the fields; run returns, or
\* raises what a child raised.
BotExit(b) ==
    /\ bot[b].pc = "waiting"
    /\ WsChildDone
    /\ EmChildDone
    /\ botEventSets' = IF botJoinEvent = None THEN botEventSets
                       ELSE botEventSets \cup {botJoinEvent}
    /\ botCloseScope' = None
    /\ botJoinEvent' = None
    /\ botIsClosing' = FALSE
    /\ bot' = [bot EXCEPT ![b].pc = "idle",
                          ![b].result = IF WsChildRaised \/ EmChildRaised
                                        THEN "raised" ELSE "returned"]
    /\ UNCHANGED <<wsVars, fanVars, emVars, apiVars, restClient, nBotRuns, bcl,
                   closeCalls, gwVars>>

\* A close in which a second caller starts the shutdown again.
BotCloseAgain(k) ==
    /\ bcl[k].pc = "idle"
    /\ IF botCloseScope # None /\ botJoinEvent # None
       THEN /\ botIsClosing' = TRUE
            /\ closeCalls' = [closeCalls EXCEPT !.ws = @ + 1]
            /\ IF cancelScope = None \/ joinEvent = None
               THEN bcl' = [bcl EXCEPT ![k] =
                              [NoBotCall EXCEPT !.pc = "done", !.call = "close",
                                 !.during = botCloseScope,
                                 !.result = "Websocket client isn't running"]]
               ELSE bcl' = [bcl EXCEPT ![k] =
                              [NoBotCall EXCEPT !.pc = "closing ws", !.call = "close",
                                 !.during = botCloseScope,
                                 !.ev = botJoinEvent, !.wsEv = joinEvent]]
            /\ cancelled' = IF cancelScope = None THEN cancelled
                            ELSE cancelled \cup {cancelScope}
       ELSE /\ bcl' = [bcl EXCEPT ![k] =
                         [NoBotCall EXCEPT !.pc = "done", !.call = "close",
                            !.during = botCloseScope,
                            !.result = "Bot is not running"]]
            /\ UNCHANGED <<botIsClosing, closeCalls, cancelled>>
    /\ UNCHANGED <<client, cancelScope, joinEvent, lastMessageId,
                   nSessions, sockOpen, sockCloses, eventSets, pc, sess, leave,
                   result, hb, childExc, cl, tasks, sent, nFrames, lastTexts,
                   fanVars, emVars, apiVars, gwVars>>
    /\ UNCHANGED <<botCloseScope, botJoinEvent, botEventSets, restClient,
                   nBotRuns, bot>>

\* WebSocketBot.close, lines 124-137, up to its first suspension.  When a
\* close is in flight the caller goes into join (line 127).  Else, when the
\* bot is running, _is_closing is set and WebSocketClient.close is called
\* (websocket.py 206-211): it raises when the connection has no scope or no
\* join event, else it cancels the scope and the caller waits for the
\* connection's join event.  Else the call raises.
BotClose(k) ==
    /\ bcl[k].pc = "idle"
    /\ IF botIsClosing
       THEN /\ bcl' = [bcl EXCEPT ![k] =
                        IF botJoinEvent # None
                        THEN [NoBotCall EXCEPT !.pc = "joining", !.call = "close",
                                !.during = botCloseScope, !.ev = botJoinEvent]
                        ELSE [NoBotCall EXCEPT !.pc = "done", !.call = "close",
                                !.during = botCloseScope,
                                !.result = "Bot is not running"]]
            /\ UNCHANGED <<botIsClosing, closeCalls, cancelled>>
       ELSE IF botCloseScope # None /\ botJoinEvent # None
       THEN /\ botIsClosing' = TRUE
            /\ closeCalls' = [closeCalls EXCEPT !.ws = @ + 1]
            /\ IF cancelScope = None \/ joinEvent = None
               THEN bcl' = [bcl EXCEPT ![k] =
                              [NoBotCall EXCEPT !.pc = "done", !.call = "close",
                                 !.during = botCloseScope,
                                 !.result = "Websocket client isn't running"]]
               ELSE bcl' = [bcl EXCEPT ![k] =
                              [NoBotCall EXCEPT !.pc = "closing ws", !.call = "close",
                                 !.during = botCloseScope,
                                 !.ev = botJoinEvent, !.wsEv = joinEvent]]
            /\ cancelled' = IF cancelScope = None THEN cancelled
                            ELSE cancelled \cup {cancelScope}
       ELSE /\ bcl' = [bcl EXCEPT ![k] =
                         [NoBotCall EXCEPT !.pc = "done", !.call = "close",
                            !.during = botCloseScope,
                            !.result = "Bot is not running"]]
            /\ UNCHANGED <<botIsClosing, closeCalls, cancelled>>
    /\ UNCHANGED <<client, cancelScope, joinEvent, lastMessageId,
                   nSessions, sockOpen, sockCloses, eventSets, pc, sess, leave,
                   result, hb, childExc, cl, tasks, sent, nFrames, lastTexts,
                   fanVars, emVars, apiVars, gwVars>>
    /\ UNCHANGED <<botCloseScope, botJoinEvent, botEventSets, restClient,
                   nBotRuns, bot>>

\* close, lines 132-134: WebSocketClient.close has returned (the
\* connection's join event is set); BaseEventManager.close cancels the
\* scope of the manager's task group (it raises when the manager never
\* ran); RestClient.close (rest.py 166-172) raises when the REST client is
\* not started, else clears its client and closes it.  The caller then
\* waits for the bot's join event (line 135).
BotCloseRest(k) ==
    /\ bcl[k].pc = "closing ws"
    /\ eventSets[bcl[k].wsEv] > 0
    /\ IF emTaskGroup = None
       THEN /\ closeCalls' = [closeCalls EXCEPT !.em = @ + 1]
            /\ bcl' = [bcl EXCEPT ![k].pc = "done",
                                  ![k].result = "Event manager isn't active"]
            /\ UNCHANGED <<emCancelled, restClient>>
       ELSE /\ emCancelled' = TRUE
            /\ closeCalls' = [closeCalls EXCEPT !.em = @ + 1, !.rest = @ + 1]
            /\ IF restClient = None
               THEN /\ bcl' = [bcl EXCEPT ![k].pc = "done",
                                 ![k].result = "Cannot close RESTClient while it's inactive"]
                    /\ restClient' = restClient
               ELSE /\ bcl' = [bcl EXCEPT ![k].pc = "joining"]
                    /\ restClient' = None
    /\ UNCHANGED <<wsVars, fanVars, apiVars, emTaskGroup, emPc, emTasks,
                   emChildExc, emResult, botCloseScope, botIsClosing,
                   botJoinEvent, botEventSets, nBotRuns, bot, gwVars>>

\* WebSocketBot.join, lines 117-122, up to its suspension.
BotJoin(k) ==
    /\ bcl[k].pc = "idle"
    /\ bcl' = [bcl EXCEPT ![k] =
                 IF botJoinEvent # None
                 THEN [NoBotCall EXCEPT !.pc = "joining", !.call = "join",
                         !.during = botCloseScope, !.ev = botJoinEvent]
                 ELSE [NoBotCall EXCEPT !.pc = "done", !.call = "join",
                         !.during = botCloseScope,
                         !.result = "Bot is not running"]]
    /\ UNCHANGED <<wsVars, fanVars, emVars, apiVars, botCloseScope, botIsClosing,
                   botJoinEvent, botEventSets, restClient, nBotRuns, bot,
                   closeCalls, gwVars>>

\* join, lines 119-122, and close, lines 135-137: the wait for the bot's
\* join event returns, and the raise that follows it is reached.
BotWaitDone(k) ==
    /\ bcl[k].pc = "joining"
    /\ bcl[k].ev \in botEventSets
    /\ bcl' = [bcl EXCEPT ![k].pc = "done", ![k].result = "Bot is not running"]
    /\ UNCHANGED <<wsVars, fanVars, emVars, apiVars, botCloseScope, botIsClosing,
                   botJoinEvent, botEventSets, restClient, nBotRuns, bot,
                   closeCalls, gwVars>>

\* ------------------------------------------------- the bot specification
\* One task runs the bot, once; a second calls run and run_blocking while
\* the bot is running.  The bot's task group starts the event manager's run
\* and the connection's run, which has one session of a heartbeat every two
\* seconds.  Two tasks each call close or join of the bot, the second after
\* the first.  Nothing is dispatched, so that only the connection's run can
\* raise.
BotNext ==
    \/ nBotRuns = 0 /\ BotRun("b1", "run")
    \/ BotIsRunning /\ \E call \in {"run", "run_blocking"} : BotRun("b2", call)
    \/ BotExit("b1")
    \/ bot["b1"].pc = "waiting" /\ emPc = "idle" /\ emResult = "none" /\ EmRun
    \/ bot["b1"].pc = "waiting" /\ pc["r1"] = "idle" /\ result["r1"] = "none"
          /\ Run("r1")
    \/ BotScopeCancelsEm
    \/ EmSleepCancelled
    \/ EmExit
    \/ ManagerStarted /\ Connected("r1")
    \/ Hello("r1", 2000)
    \/ HelloMissing("r1")
    \/ BodyCancelled("r1")
    \/ \E why \in {"eos", "closed"} : EndOfStream("r1", why)
    \/ RunFinally("r1")
    \/ ExitTaskGroup("r1")
    \/ HeartbeatPing("r1")
    \/ HeartbeatCancelled("r1")
    \/ \E k \in BotClosers : (k = "k1" \/ bcl["k1"].pc # "idle") /\ BotClose(k)
    \/ \E k \in BotClosers : (k = "k1" \/ bcl["k1"].pc # "idle") /\ BotJoin(k)
    \/ \E k \in BotClosers : BotCloseRest(k)
    \/ \E k \in BotClosers : BotWaitDone(k)

BotSpec == Init /\ [][BotNext]_vars

\* ------------------------------------------------ the join specification
\* One task runs the connection for one session, of a heartbeat every two
\* seconds; one task calls close and another calls join, each at any time.
JoinNext ==
    \/ nSessions = 0 /\ Run("r1")
    \/ Connected("r1")
    \/ Hello("r1", 2000)
    \/ HelloMissing("r1")
    \/ BodyCancelled("r1")
    \/ \E why \in {"eos", "closed"} : EndOfStream("r1", why)
    \/ RunFinally("r1")
    \/ ExitTaskGroup("r1")
    \/ HeartbeatPing("r1")
    \/ HeartbeatCancelled("r1")
    \/ Tick
    \/ Close("c1")
    \/ Join("c2")
    \/ \E c \in Closers : CloseReturns(c)

JoinSpec == Init /\ [][JoinNext]_vars

\* ------------------------------------------------ the race specification
\* Two tasks call run of the same connection, each at any time, also while
\* the other is suspended in create_websocket; one task calls close.
RaceNext ==
    \/ \E r \in Runners : Run(r)
    \/ \E r \in Runners : Connected(r)
    \/ \E r \in Runners : Hello(r, 2000)
    \/ \E r \in Runners : HelloMissing(r)
    \/ \E r \in Runners : BodyCancelled(r)
    \/ \E r \in Runners : EndOfStream(r, "eos")
    \/ \E r \in Runners : RunFinally(r)
    \/ \E r \in Runners : ExitTaskGroup(r)
    \/ \E r \in Runners : HeartbeatPing(r)
    \/ \E r \in Runners : HeartbeatCancelled(r)
    \/ Close("c1")
    \/ CloseReturns("c1")

RaceSpec == Init /\ [][RaceNext]_vars

\* --------------------------------------------- the routing specification
\* The application has registered two raw listeners and a raw stream for
\* ChatMessageCreated on the connection, and a listener and a stream for
\* MessageCreatedEvent on the event manager (add_raw_listener, stream,
\* add_listener), each stream with a buffer of one.
MessageFields == {"id", "channelId", "content", "createdAt", "createdBy"}
PayloadFull == [message |-> MessageFields]
PayloadNoMessage == [note |-> {"id"}]

DispatchInit ==
    /\ InitRuntime
    /\ rawDispatchers =
         [name \in {"ChatMessageCreated"} |->
            [callbacks |-> <<"rawA", "rawB">>, streams |-> <<1>>]]
    /\ emDispatchers =
         [type \in {"MessageCreatedEvent"} |->
            [callbacks |-> <<"evA">>, streams |-> <<2>>]]
    /\ streams = [id \in {1, 2} |-> [buf |-> <<>>, cap |-> 1, open |-> TRUE]]
    /\ netCallbacks = [cb \in Callbacks |-> IF cb = "evA" THEN 1 ELSE 0]
    /\ subs = <<NewSub("raw", "ChatMessageCreated"), NewSub("em", "MessageCreatedEvent")>>

\* The text frames the gateway sends in this specification: not JSON; a
\* ChatMessageCreated event, whole and without its message field; an event
\* nothing is registered for; the event in an envelope with another opcode
\* and in one without opcode (and with an empty "s"); a dispatch envelope
\* without its event name.
DispatchFrames ==
    {[kind |-> "text", json |-> "bad"],
     [kind |-> "text", json |-> "ok",
      env |-> [op |-> 0, t |-> "ChatMessageCreated", d |-> PayloadFull, s |-> "m1"]],
     [kind |-> "text", json |-> "ok",
      env |-> [op |-> 0, t |-> "ChatMessageCreated", d |-> PayloadNoMessage]],
     [kind |-> "text", json |-> "ok",
      env |-> [op |-> 0, t |-> "Unlisted", d |-> PayloadFull, s |-> "m2"]],
     [kind |-> "text", json |-> "ok",
      env |-> [op |-> 1, t |-> "ChatMessageCreated", d |-> PayloadFull, s |-> "m3"]],
     [kind |-> "text", json |-> "ok",
      env |-> [t |-> "ChatMessageCreated", d |-> PayloadFull, s |-> ""]],
     [kind |-> "text", json |-> "ok", env |-> [op |-> 0, d |-> PayloadFull]]}

AllTasks == UNION {tasks[r] : r \in Runners}

\* One session is followed, of a heartbeat every two seconds.
DispatchNext ==
    \/ nSessions = 0 /\ Run("r1")
    \/ Connected("r1")
    \/ Hello("r1", 2000)
    \/ \E f \in DispatchFrames : ReceiveText("r1", f)
    \/ EndOfStream("r1", "eos")
    \/ BodyCancelled("r1")
    \/ RunFinally("r1")
    \/ ExitTaskGroup("r1")
    \/ HeartbeatPing("r1")
    \/ HeartbeatCancelled("r1")
    \/ \E t \in tasks["r1"] : CallbackReturns("r1", t)
    \/ \E t \in tasks["r1"] : CallbackRaises("r1", t)
    \/ \E t \in tasks["r1"] : CallbackCancelled("r1", t)
    \/ EmRun
    \/ EmClose
    \/ EmSleepCancelled
    \/ EmExit
    \/ \E t \in emTasks : EmCallbackReturns(t)
    \/ \E t \in emTasks : EmCallbackRaises(t)
    \/ \E t \in emTasks : EmCallbackCancelled(t)

DispatchSpec == DispatchInit /\ [][DispatchNext]_vars

\* ------------------------------------ the application's calls (connection)
\* WebSocketClient.add_raw_listener, lines 256-260.
AddRawListener(name, cb) ==
    /\ nCalls < MaxCalls
    /\ nCalls' = nCalls + 1
    /\ rawDispatchers' =
         Put(rawDispatchers, name, AddCallback(GetOrCreate(rawDispatchers, name), cb))
    /\ apiResult' = [call |-> "add_raw_listener", result |-> "ok"]
    /\ UNCHANGED <<wsVars, emVars, emDispatchers, streams, nValues,
                   netCallbacks, subs, botVars, gwVars>>

\* WebSocketClient.remove_raw_listener, lines 277-281.
RemoveRawListener(name, cb) ==
    /\ nCalls < MaxCalls
    /\ nCalls' = nCalls + 1
    /\ IF name \notin DOMAIN rawDispatchers
       THEN /\ apiResult' = [call |-> "remove_raw_listener", result |-> "KeyError"]
            /\ UNCHANGED rawDispatchers
       ELSE LET out == RemoveCallback(rawDispatchers[name], cb) IN
            IF out.raised
            THEN /\ apiResult' = [call |-> "remove_raw_listener", result |-> "ValueError"]
                 /\ UNCHANGED rawDispatchers
            ELSE /\ apiResult' = [call |-> "remove_raw_listener", result |-> "ok"]
                 /\ rawDispatchers' = IF IsEmpty(out.d)
                                      THEN Del(rawDispatchers, name)
                                      ELSE Put(rawDispatchers, name, out.d)
    /\ UNCHANGED <<wsVars, emVars, emDispatchers, streams, nValues,
                   netCallbacks, subs, botVars, gwVars>>

\* WebSocketClient.stream, lines 251-254.
RawStream(name, size) ==
    /\ nCalls < MaxCalls
    /\ nCalls' = nCalls + 1
    /\ LET id == Len(streams) + 1 IN
        /\ streams' = Append(streams, NewStream(size))
        /\ rawDispatchers' =
             Put(rawDispatchers, name, Subscribe(GetOrCreate(rawDispatchers, name), id))
        /\ subs' = Append(subs, NewSub("raw", name))
    /\ apiResult' = [call |-> "raw stream", result |-> "ok"]
    /\ UNCHANGED <<wsVars, emVars, emDispatchers, nValues, netCallbacks, botVars, gwVars>>

\* ------------------------------------------ the registration specification
\* The application registers and removes listeners and streams on the event
\* manager, hands events to it and starts it; the subscribers take items
\* and close.  The callbacks return.

FanNext ==
    \/ \E type \in EventTypes, cb \in Callbacks : EmAddListener(type, cb)
    \/ \E type \in EventTypes, cb \in Callbacks : EmRemoveListener(type, cb)
    \/ \E type \in EventTypes, size \in BufferSizes : EmStream(type, size)
    \/ \E type \in EventTypes : EmDispatchCall(type)
    \/ \E id \in DOMAIN streams : StreamClose(id)
    \/ \E id \in DOMAIN streams : StreamReceive(id)
    \/ EmRun
    \/ \E t \in emTasks : EmCallbackReturns(t)

FanSpec == Init /\ [][FanNext]_vars

\* ------------------------------------------------ the removal specification
\* The application has registered one raw listener for the event "Unlisted"
\* (which the manager has no handler for) on the connection and one
\* listener for MessageCreatedEvent on the event manager, each with or
\* without a stream of buffer size two beside it.  It then removes
\* listeners and hands events to the manager while the manager is started
\* and one session takes frames of the event.  The callbacks are still
\* running; the session stays connected.
UnlistedFrame == [kind |-> "text", json |-> "ok",
     env |-> [op |-> 0, t |-> "Unlisted", d |-> PayloadFull, s |-> "m2"]]

RouterInit ==
    /\ InitRuntime
    /\ \E withStreams \in BOOLEAN :
         /\ rawDispatchers =
              [name \in {"Unlisted"} |->
                 [callbacks |-> <<"rawA">>,
                  streams |-> IF withStreams THEN <<1>> ELSE <<>>]]
         /\ emDispatchers =
              [type \in {"MessageCreatedEvent"} |->
                 [callbacks |-> <<"evA">>,
                  streams |-> IF withStreams THEN <<2>> ELSE <<>>]]
         /\ streams = IF withStreams THEN <<NewStream(2), NewStream(2)>> ELSE <<>>
         /\ subs = IF withStreams
                   THEN <<NewSub("raw", "Unlisted"), NewSub("em", "MessageCreatedEvent")>>
                   ELSE <<>>
    /\ netCallbacks = [cb \in Callbacks |-> IF cb = "evA" THEN 1 ELSE 0]

RouterNext ==
    \/ RemoveRawListener("Unlisted", "rawA")
    \/ EmRemoveListener("MessageCreatedEvent", "evA")
    \/ EmDispatchCall("MessageCreatedEvent")
    \/ \E id \in DOMAIN streams : StreamClose(id)
    \/ EmRun
    \/ nSessions = 0 /\ Run("r1")
    \/ Connected("r1")
    \/ Hello("r1", 2000)
    \/ ReceiveText("r1", UnlistedFrame)

RouterSpec == RouterInit /\ [][RouterNext]_vars

\* -------------------------------------------------- the typed specification
\* The application has registered a listener for MessageEvent, for
\* MessageCreatedEvent, for its own AppCreatedEvent and for
\* MessageDeletedEvent, each with or without a stream of buffer size one
\* beside it.  It starts the manager, hands it events of the two classes it
\* can make instances of, and hands it raw payloads of the event
\* ChatMessageDeleted; the subscribers take items, the callbacks are still
\* running.
RegisteredTypes ==
    {"MessageEvent", "MessageCreatedEvent", "AppCreatedEvent", "MessageDeletedEvent"}
TypeOrder ==
    <<"MessageEvent", "MessageCreatedEvent", "AppCreatedEvent", "MessageDeletedEvent">>
StreamOf(type) == CHOOSE i \in 1..Len(TypeOrder) : TypeOrder[i] = type
ListenerOf(type) ==
    IF type \in {"MessageCreatedEvent", "MessageDeletedEvent"} THEN "evA" ELSE "evB"

\* The payloads of ChatMessageDeleted: the three fields at its top level;
\* the same beside a field "message" holding those of another message; the
\* three fields inside "message" only.
DeletedTop == [id |-> "u1", channelId |-> "U2", deletedAt |-> "2022-01-01T00:00:00Z"]
DeletedTopAndMessage ==
    [id |-> "u1", channelId |-> "U2", deletedAt |-> "2022-01-01T00:00:00Z",
     message |-> [id |-> "u3", channelId |-> "u3",
                  deletedAt |-> "2022-01-01T00:00:00+00:00"]]
DeletedNested ==
    [message |-> [id |-> "u1", channelId |-> "U2",
                  deletedAt |-> "2022-01-01T00:00:00Z"]]
DeletedPayloads == {DeletedTop, DeletedTopAndMessage, DeletedNested}

TypedInit ==
    /\ InitRuntime
    /\ \E withStreams \in BOOLEAN :
         /\ emDispatchers =
              [type \in RegisteredTypes |->
                 [callbacks |-> <<ListenerOf(type)>>,
                  streams |-> IF withStreams THEN <<StreamOf(type)>> ELSE <<>>]]
         /\ streams = IF withStreams
                      THEN [id \in 1..Len(TypeOrder) |-> NewStream(1)]
                      ELSE <<>>
         /\ subs = IF withStreams
                   THEN [id \in 1..Len(TypeOrder) |-> NewSub("em", TypeOrder[id])]
                   ELSE <<>>
    /\ rawDispatchers = <<>>
    /\ netCallbacks = [cb \in Callbacks |-> 2]

TypedNext ==
    \/ EmRun
    \/ \E type \in {"MessageCreatedEvent", "AppCreatedEvent"} : EmDispatchCall(type)
    \/ \E d \in DeletedPayloads : EmDispatchRawCall("ChatMessageDeleted", d)
    \/ \E id \in DOMAIN streams : StreamReceive(id)

TypedSpec == TypedInit /\ [][TypedNext]_vars

\* ---------------------------------------- the bot dispatch specification
\* The application has registered one listener for MessageCreatedEvent on
\* the bot's event manager.
BotDispatchInit ==
    /\ InitRuntime
    /\ rawDispatchers = <<>>
    /\ emDispatchers =
         [type \in {"MessageCreatedEvent"} |->
            [callbacks |-> <<"evA">>, streams |-> <<>>]]
    /\ streams = <<>>
    /\ netCallbacks = [cb \in Callbacks |-> IF cb = "evA" THEN 1 ELSE 0]
    /\ subs = <<>>

\* The frame the gateway sends in this specification.
BotFrame ==
    [kind |-> "text", json |-> "ok",
     env |-> [op |-> 0, t |-> "ChatMessageCreated", d |-> PayloadFull, s |-> "m1"]]

\* One run of the bot, whose connection receives ChatMessageCreated frames
\* and forwards them to the event manager; the listener's tasks return,
\* raise or are cancelled; one task calls close of the bot.
BotDispatchNext ==
    \/ nBotRuns = 0 /\ BotRun("b1", "run")
    \/ BotExit("b1")
    \/ bot["b1"].pc = "waiting" /\ emPc = "idle" /\ emResult = "none" /\ EmRun
    \/ bot["b1"].pc = "waiting" /\ pc["r1"] = "idle" /\ result["r1"] = "none"
          /\ nSessions = 0 /\ Run("r1")
    \/ BotScopeCancelsEm
    \/ BotScopeCancelsWs
    \/ EmSleepCancelled
    \/ EmExit
    \/ ManagerStarted /\ Connected("r1")
    \/ Hello("r1", 2000)
    \/ HelloMissing("r1")
    \/ ReceiveText("r1", BotFrame)
    \/ BodyCancelled("r1")
    \/ EndOfStream("r1", "eos")
    \/ RunFinally("r1")
    \/ ExitTaskGroup("r1")
    \/ HeartbeatCancelled("r1")
    \/ \E t \in emTasks : EmCallbackReturns(t)
    \/ \E t \in emTasks : EmCallbackRaises(t)
    \/ \E t \in emTasks : EmCallbackCancelled(t)
    \/ BotClose("k1")
    \/ BotCloseRest("k1")
    \/ BotWaitDone("k1")

BotDispatchSpec == BotDispatchInit /\ [][BotDispatchNext]_vars

\* ============================================ impl/gateway.py: WebsocketClient
\* Listener.activate: an inactive listener becomes active; activating an
\* active one fails.
ListenerActivate(active, o) ==
    IF o \in active THEN [raised |-> TRUE, active |-> active]
    ELSE [raised |-> FALSE, active |-> active \cup {o}]

\* Listener.deactivate: an active listener becomes inactive; deactivating
\* an inactive one fails ("not active").
ListenerDeactivate(active, o) ==
    IF o \notin active THEN [raised |-> TRUE, active |-> active]
    ELSE [raised |-> FALSE, active |-> active \ {o}]

\* start, lines 241-242: every registered listener, in the order of
\* registration, is activated with a new stream (stream, lines 246-256, is
\* evaluated before activate is called); the loop ends where activate
\* raises.
RECURSIVE ActivateAll(_, _, _)
ActivateAll(ls, active, made) ==
    IF ls = <<>> THEN [raised |-> FALSE, active |-> active, made |-> made]
    ELSE LET out == ListenerActivate(active, Head(ls).obj) IN
         IF out.raised
         THEN [raised |-> TRUE, active |-> out.active, made |-> made + 1]
         ELSE ActivateAll(Tail(ls), out.active, made + 1)

\* close, lines 228-229: every registered listener is deactivated; the loop
\* ends where deactivate raises.
RECURSIVE DeactivateAll(_, _)
DeactivateAll(ls, active) ==
    IF ls = <<>> THEN [raised |-> FALSE, active |-> active]
    ELSE LET out == ListenerDeactivate(active, Head(ls).obj) IN
         IF out.raised THEN out
         ELSE DeactivateAll(Tail(ls), out.active)

\* The registered listener of a key, and the list without it.
GwHas(key) == \E i \in 1..Len(gwListeners) : gwListeners[i].key = key
GwIndex(key) == CHOOSE i \in 1..Len(gwListeners) : gwListeners[i].key = key
GwWithout(key) ==
    LET i == GwIndex(key) IN
    SubSeq(gwListeners, 1, i - 1) \o SubSeq(gwListeners, i + 1, Len(gwListeners))

\* start, lines 233-239: the check of _client, then the suspension in
\* create_websocket, during which _client is still None.
GwStart(s) ==
    /\ gw[s].pc = "idle"
    /\ IF gwClient # None
       THEN gw' = [gw EXCEPT ![s].result = "already running"]
       ELSE /\ gwNSessions + Cardinality({q \in GwStarters : gw[q].pc = "connecting"})
                 < MaxSessions
            /\ gw' = [gw EXCEPT ![s] = [GwIdle EXCEPT !.pc = "connecting"]]
    /\ UNCHANGED <<gwClient, gwTaskGroup, gwLastMessageId, gwListeners, gwActive,
                   gwStreams, gwNSessions, gwNObj, gwNCalls, gwCancelled,
                   gwSockClosed, gwCl, gwApi, coreVars>>

\* start, lines 237-244, and _keep_alive, lines 131-136: create_websocket
\* returns; the socket and a new task group are stored, the registered
\* listeners are activated, and _keep_alive enters the task group and
\* suspends in _wait_for_hello's anext.  What activate raises leaves start
\* with the fields set.
GwConnected(s) ==
    /\ gw[s].pc = "connecting"
    /\ LET n == gwNSessions + 1
           out == ActivateAll(gwListeners, gwActive, 0)
       IN
        /\ gwNSessions' = n
        /\ gwClient' = n
        /\ gwTaskGroup' = n
        /\ gwActive' = out.active
        /\ gwStreams' = gwStreams + out.made
        /\ gw' = [gw EXCEPT ![s] =
                    IF out.raised
                    THEN [GwIdle EXCEPT !.sess = n, !.result = "already active"]
                    ELSE [GwIdle EXCEPT !.sess = n, !.pc = "hello"]]
    /\ UNCHANGED <<gwLastMessageId, gwListeners, gwNObj, gwNCalls, gwCancelled,
                   gwSockClosed, gwCl, gwApi, coreVars>>

\* _wait_for_hello, lines 172-182, when the first frame is a hello frame:
\* the last message id is recorded and the heartbeat task is started in the
\* task group; _keep_alive goes on to _receive_events.
GwHello(s) ==
    /\ gw[s].pc = "hello"
    /\ gw[s].sess \notin gwCancelled
    /\ gwLastMessageId' = HelloMessageId
    /\ gw' = [gw EXCEPT ![s].pc = "receiving", ![s].hb = "ready"]
    /\ UNCHANGED <<gwClient, gwTaskGroup, gwListeners, gwActive, gwStreams,
                   gwNSessions, gwNObj, gwNCalls, gwCancelled, gwSockClosed,
                   gwCl, gwApi, coreVars>>

\* _wait_for_hello, lines 173-176, when the stream ends before a frame:
\* RuntimeError("Failed to connect") leaves the task group, which has no
\* child yet, and start.
GwHelloMissing(s) ==
    /\ gw[s].pc = "hello"
    /\ gw[s].sess \notin gwCancelled
    /\ gw' = [gw EXCEPT ![s].pc = "idle", ![s].leave = "no hello",
                        ![s].result = "failed to connect"]
    /\ UNCHANGED <<gwClient, gwTaskGroup, gwLastMessageId, gwListeners, gwActive,
                   gwStreams, gwNSessions, gwNObj, gwNCalls, gwCancelled,
                   gwSockClosed, gwCl, gwApi, coreVars>>

\* The anext of _wait_for_hello (173) or of _receive_events (144) is a
\* checkpoint of the task group's scope once close has cancelled it.
GwBodyCancelled(s) ==
    /\ gw[s].pc \in {"hello", "receiving"}
    /\ gw[s].sess \in gwCancelled
    /\ gw' = [gw EXCEPT ![s].pc = "exiting", ![s].leave = "cancelled"]
    /\ UNCHANGED <<gwClient, gwTaskGroup, gwLastMessageId, gwListeners, gwActive,
                   gwStreams, gwNSessions, gwNObj, gwNCalls, gwCancelled,
                   gwSockClosed, gwCl, gwApi, coreVars>>

\* _receive_events, lines 143-152, and _keep_alive, line 138: the stream
\* ends ("eos"), or the socket was closed ("closed"); the loop returns and
\* the scope of the heartbeat is cancelled.
GwEndOfStream(s, why) ==
    /\ gw[s].pc = "receiving"
    /\ gw[s].sess \notin gwCancelled
    /\ why = "closed" => gw[s].sess \in gwSockClosed
    /\ gw' = [gw EXCEPT ![s].pc = "exiting", ![s].leave = why,
                        ![s].hbCancel = TRUE]
    /\ UNCHANGED <<gwClient, gwTaskGroup, gwLastMessageId, gwListeners, gwActive,
                   gwStreams, gwNSessions, gwNObj, gwNCalls, gwCancelled,
                   gwSockClosed, gwCl, gwApi, coreVars>>

\* _keep_alive, line 135: the exit of the task group waits for the
\* heartbeat task, then start returns, or raises what the child raised.
\* The fields are left as they are.
GwExit(s) ==
    /\ gw[s].pc = "exiting"
    /\ gw[s].hb \notin {"ready", "sleeping"}
    /\ gw' = [gw EXCEPT ![s].pc = "idle",
                        ![s].result = IF gw[s].childExc THEN "raised"
                                      ELSE "returned"]
    /\ UNCHANGED <<gwClient, gwTaskGroup, gwLastMessageId, gwListeners, gwActive,
                   gwStreams, gwNSessions, gwNObj, gwNCalls, gwCancelled,
                   gwSockClosed, gwCl, gwApi, coreVars>>

\* The scope of the heartbeat (cancel_heartbeat) or of the task group it
\* runs in is cancelled.
GwHeartbeatScopeCancelled(s) ==
    gw[s].hbCancel \/ gw[s].sess \in gwCancelled

\* _heartbeat, lines 124-129: _get_ws raises when _client is None, which
\* ends the task and cancels the task group; else, inside the heartbeat's
\* scope, the ping is sent and the task sleeps `delay`.
GwHeartbeatPing(s) ==
    /\ gw[s].hb = "ready"
    /\ ~GwHeartbeatScopeCancelled(s)
    /\ IF gwClient = None
       THEN /\ gw' = [gw EXCEPT ![s].hb = "failed", ![s].childExc = TRUE]
            /\ gwCancelled' = gwCancelled \cup {gw[s].sess}
       ELSE /\ gw' = [gw EXCEPT ![s].hb = "sleeping", ![s].pings = @ + 1]
            /\ gwCancelled' = gwCancelled
    /\ UNCHANGED <<gwClient, gwTaskGroup, gwLastMessageId, gwListeners, gwActive,
                   gwStreams, gwNSessions, gwNObj, gwNCalls, gwSockClosed,
                   gwCl, gwApi, coreVars>>

\* _heartbeat, line 129: the sleep is over and the function returns:
\* there is no loop around the ping and the sleep.
GwHeartbeatSleepDone(s) ==
    /\ gw[s].hb = "sleeping"
    /\ ~GwHeartbeatScopeCancelled(s)
    /\ gw' = [gw EXCEPT ![s].hb = "done"]
    /\ UNCHANGED <<gwClient, gwTaskGroup, gwLastMessageId, gwListeners, gwActive,
                   gwStreams, gwNSessions, gwNObj, gwNCalls, gwCancelled,
                   gwSockClosed, gwCl, gwApi, coreVars>>

\* _heartbeat, line 126: the send and the sleep are checkpoints of the
\* heartbeat's scope and of the task group's.
GwHeartbeatCancelled(s) ==
    /\ gw[s].hb \in {"ready", "sleeping"}
    /\ GwHeartbeatScopeCancelled(s)
    /\ gw' = [gw EXCEPT ![s].hb = "cancelled"]
    /\ UNCHANGED <<gwClient, gwTaskGroup, gwLastMessageId, gwListeners, gwActive,
                   gwStreams, gwNSessions, gwNObj, gwNCalls, gwCancelled,
                   gwSockClosed, gwCl, gwApi, coreVars>>

\* close, lines 221-226: _get_ws and _get_task_group raise when the field
\* is None; else both fields are cleared and the caller suspends in
\* client.close().
GwClose ==
    /\ gwCl.pc = "idle"
    /\ gwNCalls < MaxGwCalls
    /\ gwNCalls' = gwNCalls + 1
    /\ IF gwClient = None \/ gwTaskGroup = None
       THEN /\ gwCl' = [pc |-> "idle", client |-> None, tg |-> None,
                        result |-> "inactive"]
            /\ UNCHANGED <<gwClient, gwTaskGroup>>
       ELSE /\ gwCl' = [pc |-> "closing", client |-> gwClient, tg |-> gwTaskGroup,
                        result |-> "none"]
            /\ gwClient' = None
            /\ gwTaskGroup' = None
    /\ UNCHANGED <<gwLastMessageId, gwListeners, gwActive, gwStreams,
                   gwNSessions, gwNObj, gw, gwCancelled, gwSockClosed, gwApi,
                   coreVars>>

\* close, line 226: client.close() closes the socket, the caller still
\* suspended in it.
GwSocketClosed ==
    /\ gwCl.pc = "closing"
    /\ gwCl.client \notin gwSockClosed
    /\ gwSockClosed' = gwSockClosed \cup {gwCl.client}
    /\ UNCHANGED <<gwClient, gwTaskGroup, gwLastMessageId, gwListeners, gwActive,
                   gwStreams, gwNSessions, gwNObj, gwNCalls, gw, gwCancelled,
                   gwCl, gwApi, coreVars>>

\* close, lines 228-231: client.close() has returned; the listeners
\* registered now are deactivated and the scope of the task group is
\* cancelled.  What deactivate raises leaves close before the cancel.
GwCloseFinish ==
    /\ gwCl.pc = "closing"
    /\ gwCl.client \in gwSockClosed
    /\ LET out == DeactivateAll(gwListeners, gwActive) IN
        /\ gwActive' = out.active
        /\ gwCancelled' = IF out.raised THEN gwCancelled
                          ELSE gwCancelled \cup {gwCl.tg}
        /\ gwCl' = [gwCl EXCEPT !.pc = "idle",
                                !.result = IF out.raised THEN "not active"
                                           ELSE "returned"]
    /\ UNCHANGED <<gwClient, gwTaskGroup, gwLastMessageId, gwListeners,
                   gwStreams, gwNSessions, gwNObj, gwNCalls, gw, gwSockClosed,
                   gwApi, coreVars>>

\* add_raw_listener, lines 258-272: a pair that is registered already is
\* left alone; else a new Listener is registered and, when the client holds
\* a task group, activated with a new stream.
GwAddRawListener(key) ==
    /\ gwNCalls < MaxGwCalls
    /\ gwNCalls' = gwNCalls + 1
    /\ IF GwHas(key)
       THEN /\ gwApi' = [call |-> "add", result |-> "kept"]
            /\ UNCHANGED <<gwListeners, gwActive, gwStreams, gwNObj>>
       ELSE LET o == gwNObj + 1
                out == IF gwTaskGroup # None THEN ListenerActivate(gwActive, o)
                       ELSE [raised |-> FALSE, active |-> gwActive]
            IN
            /\ gwNObj' = o
            /\ gwListeners' = Append(gwListeners, [key |-> key, obj |-> o])
            /\ gwActive' = out.active
            /\ gwStreams' = IF gwTaskGroup # None THEN gwStreams + 1 ELSE gwStreams
            /\ gwApi' = [call |-> "add",
                         result |-> IF out.raised THEN "already active" ELSE "ok"]
    /\ UNCHANGED <<gwClient, gwTaskGroup, gwLastMessageId, gwNSessions, gw,
                   gwCancelled, gwSockClosed, gwCl, coreVars>>

\* remove_raw_listener, lines 283-286: KeyError when the pair is not
\* registered; else the listener is taken out and, when the client holds a
\* task group, deactivated.
GwRemoveRawListener(key) ==
    /\ gwNCalls < MaxGwCalls
    /\ gwNCalls' = gwNCalls + 1
    /\ IF ~GwHas(key)
       THEN /\ gwApi' = [call |-> "remove", result |-> "KeyError"]
            /\ UNCHANGED <<gwListeners, gwActive>>
       ELSE LET o == gwListeners[GwIndex(key)].obj
                out == IF gwTaskGroup # None THEN ListenerDeactivate(gwActive, o)
                       ELSE [raised |-> FALSE, active |-> gwActive]
            IN
            /\ gwListeners' = GwWithout(key)
            /\ gwActive' = out.active
            /\ gwApi' = [call |-> "remove",
                         result |-> IF out.raised THEN "not active" ELSE "ok"]
    /\ UNCHANGED <<gwClient, gwTaskGroup, gwLastMessageId, gwStreams,
                   gwNSessions, gwNObj, gw, gwCancelled, gwSockClosed, gwCl,
                   coreVars>>

\* Tasks call start, close, add_raw_listener and remove_raw_listener of one
\* gateway client, each at any time.
GatewayNext ==
    \/ \E s \in GwStarters : GwStart(s)
    \/ \E s \in GwStarters : GwConnected(s)
    \/ \E s \in GwStarters : GwHello(s)
    \/ \E s \in GwStarters : GwHelloMissing(s)
    \/ \E s \in GwStarters : GwBodyCancelled(s)
    \/ \E s \in GwStarters, why \in {"eos", "closed"} : GwEndOfStream(s, why)
    \/ \E s \in GwStarters : GwExit(s)
    \/ \E s \in GwStarters : GwHeartbeatPing(s)
    \/ \E s \in GwStarters : GwHeartbeatSleepDone(s)
    \/ \E s \in GwStarters : GwHeartbeatCancelled(s)
    \/ GwClose
    \/ GwSocketClosed
    \/ GwCloseFinish
    \/ \E key \in GwKeys : GwAddRawListener(key)
    \/ \E key \in GwKeys : GwRemoveRawListener(key)

GatewaySpec == Init /\ [][GatewayNext]_vars

\* =================================================================== claims
BadJsonFrame == [kind |-> "text", json |-> "bad"]
CreatedFrame ==
    [kind |-> "text", json |-> "ok",
     env |-> [op |-> 0, t |-> "ChatMessageCreated", d |-> PayloadFull, s |-> "m1"]]
NoMessageFrame ==
    [kind |-> "text", json |-> "ok",
     env |-> [op |-> 0, t |-> "ChatMessageCreated", d |-> PayloadNoMessage]]

\* C1: a callback scheduled by Dispatchable.dispatch that raises leaves the
\* scope of the task group it runs in uncancelled, so that its sibling
\* callbacks, the receive loop of the connection and the run loop of the
\* event manager go on.
C1_CallbackFailureContained ==
    [][/\ \A t \in tasks["r1"] :
            CallbackRaises("r1", t) => cancelled' = cancelled
       /\ \A t \in emTasks :
            EmCallbackRaises(t) => emCancelled' = emCancelled
      ]_vars

\* The cleanup of the session a closer waits for is still to come, or has
\* signalled the join event.
CleanupAheadOrDone(c) ==
    \/ eventSets[cl[c].ev] > 0
    \/ \E r \in Runners :
         sess[r] = cl[c].ev /\ pc[r] \in {"hello", "receiving", "finally"}

\* C2: close on a running connection cancels the session's scope and
\* returns only after the cleanup of run (socket closed, join event set,
\* client no longer running); and it does return: no caller of close is
\* left waiting for a session whose run has gone past its cleanup without
\* signalling.
C2_CloseWaitsForCleanupAndReturns ==
    \A c \in Closers :
        /\ cl[c].pc \in {"waiting", "returned"} => cl[c].ev \in cancelled
        /\ cl[c].pc = "returned" =>
              /\ cl[c].ev \notin sockOpen
              /\ eventSets[cl[c].ev] > 0
              /\ client # cl[c].ev
        /\ cl[c].pc = "waiting" => CleanupAheadOrDone(c)

\* C3: when both callers called close on the running connection, one
\* teardown happens (never a second close of the socket or a second
\* signal, and once run is over exactly one of each) and neither caller
\* fails or is left waiting.
C3_ConcurrentCloseOneTeardown ==
    (\A c \in Closers : cl[c].pc \in {"waiting", "returned"} /\ cl[c].ev = 1) =>
        /\ sockCloses[1] <= 1 /\ eventSets[1] <= 1
        /\ \A c \in Closers : cl[c].pc = "waiting" => CleanupAheadOrDone(c)
        /\ (\E r \in Runners : sess[r] = 1 /\ pc[r] \in {"exiting", "idle"}) =>
              sockCloses[1] = 1 /\ eventSets[1] = 1

\* C4: when the receive loop ended by a clean close or an end of stream,
\* the heartbeat task of the session is stopped, run completes without
\* raising, and no new socket is opened by it.
C4_EndOfStreamStopsHeartbeat ==
    \A r \in Runners :
        leave[r] \in {"eos", "closed"} =>
            /\ pc[r] \in {"exiting", "idle"} => ~HeartbeatAlive(r)
            /\ pc[r] = "idle" => result[r] = "returned"
            /\ pc[r] # "connecting"

\* C5: a session has one receive loop and at most one heartbeat task, and
\* no heartbeat task is alive once its session has ended: whenever
\* is_running is false no heartbeat task is running.
C5_NoHeartbeatOutlivesSession ==
    /\ \A r \in Runners : HeartbeatAlive(r) => pc[r] \in {"receiving", "finally", "exiting"}
    /\ ~IsRunning => \A r \in Runners : ~HeartbeatAlive(r)

\* A handler of the event manager is registered for the frame's event and
\* raises on its payload.
HandlerRaises(f) ==
    /\ f.json = "ok"
    /\ Get(f.env, "op", NoOp) = 0
    /\ {"t", "d"} \subseteq DOMAIN f.env
    /\ f.env.t \in RawListenerNames
    /\ RawListener(f.env.t, [n |-> 0, d |-> f.env.d]).raised

\* C6: when the conversion handler raises inside dispatch_raw because a
\* field is missing, the event is dropped and the receive loop goes on:
\* the session is not left, its scope is not cancelled and the heartbeat
\* task stays.
C6_UnmarshalErrorContained ==
    [][\A f \in DispatchFrames :
          (ReceiveText("r1", f) /\ HandlerRaises(f)) =>
              /\ pc'["r1"] = "receiving"
              /\ leave'["r1"] = "none"
              /\ cancelled' = cancelled
              /\ hb' = hb
      ]_vars

\* C7: a text frame that is not JSON is dropped without any change of the
\* session, the dispatchers, the streams or the last message id; the
\* ChatMessageCreated frame that follows it reaches both raw listeners and
\* the raw stream and sets the last message id, and with the event manager
\* running its typed event reaches the manager's listener and stream and
\* the session stays in its receive loop on an open socket.
C7_BadJsonThenDispatch ==
    [][/\ ReceiveText("r1", BadJsonFrame) =>
            UNCHANGED <<client, cancelScope, joinEvent, lastMessageId, sockOpen,
                        sockCloses, cancelled, eventSets, pc, sess, leave,
                        result, hb, childExc, tasks, sent, fanVars, emVars>>
       /\ (/\ ReceiveText("r1", CreatedFrame)
           /\ lastTexts # <<>>
           /\ lastTexts[Len(lastTexts)] = BadJsonFrame) =>
            LET value == [n |-> nFrames + 1, d |-> PayloadFull]
                event == [type |-> "MessageCreatedEvent", n |-> nFrames + 1,
                          message |-> MessageFields]
            IN
            /\ lastMessageId' = "m1"
            /\ tasks'["r1"] = tasks["r1"] \cup
                                {[cb |-> "rawA", val |-> value, pos |-> 1],
                                 [cb |-> "rawB", val |-> value, pos |-> 2]}
            /\ streams'[1].buf = IF Len(streams[1].buf) < streams[1].cap
                                 THEN Append(streams[1].buf, value)
                                 ELSE streams[1].buf
            /\ emPc = "running" =>
                 /\ emTasks' = emTasks \cup {[cb |-> "evA", val |-> event, pos |-> 1]}
                 /\ streams'[2].buf = IF Len(streams[2].buf) < streams[2].cap
                                      THEN Append(streams[2].buf, event)
                                      ELSE streams[2].buf
                 /\ pc'["r1"] = "receiving"
                 /\ UNCHANGED <<client, sockOpen, cancelled, leave, hb>>
      ]_vars

C7_Witness ==
    /\ lastTexts = <<BadJsonFrame, CreatedFrame>>
    /\ pc["r1"] = "receiving"
    /\ 1 \in sockOpen
    /\ lastMessageId = "m1"
    /\ \E t \in tasks["r1"] : t.cb = "rawA" /\ t.val.n = 2
    /\ \E t \in emTasks : t.cb = "evA" /\ t.val.n = 2

\* C8: a ping frame of the server is answered at once with a pong frame,
\* and a pong frame (or a bytes frame) makes the client send nothing.
C8_PingAnsweredWithPong ==
    [][\A r \in Runners, f \in ControlFrames :
          ReceiveControl(r, f) =>
              sent'[r] = IF f.kind = "ping"
                         THEN Append(sent[r], [kind |-> PONG, by |-> "reply"])
                         ELSE sent[r]
      ]_vars

C10_RunWhileConnectedFails ==
    [][\A r \in Runners :
          (client # None /\ Run(r)) =>
              /\ result'[r] = "already running"
              /\ UNCHANGED <<client, cancelScope, joinEvent, lastMessageId,
                             nSessions, sockOpen, sockCloses, cancelled,
                             eventSets, pc, sess, leave, hb, sent>>
      ]_vars

C10_Witness ==
    /\ client # None
    /\ pc["r1"] = "receiving"
    /\ 1 \in sockOpen
    /\ result["r2"] = "already running"
    /\ pc["r2"] = "idle"

\* C11: when no first frame arrives while the session awaits its hello, no
\* heartbeat task is started, run fails with "failed to connect" and the
\* connection ends up disconnected (socket closed, is_running false); when
\* the hello arrives, its lastMessageId becomes the last message id and
\* the one heartbeat task of the session is started as the receive loop
\* begins.
C11_HelloOrFailedToConnect ==
    [][\A r \in Runners :
          /\ (pc[r] = "hello" /\ pc'[r] = "receiving") =>
                /\ lastMessageId' = HelloMessageId
                /\ hb[r].st = "none" /\ hb'[r].st = "ready"
                /\ sent'[r] = <<>>
          /\ leave'[r] \in {"no hello", "no hello, cancelled"} =>
                /\ hb'[r].st = "none"
                /\ pc'[r] = "idle" =>
                      /\ result'[r] = "failed to connect"
                      /\ ~IsRunning'
                      /\ sess'[r] \notin sockOpen'
      ]_vars

\* C12: a well-formed frame whose opcode is not 0, or is absent, starts no
\* raw callback, reaches no raw stream and nothing of the event manager,
\* and leaves the session in its receive loop.
C12_OtherOpcodesDropped ==
    [][\A f \in DispatchFrames :
          (ReceiveText("r1", f) /\ f.json = "ok" /\ Get(f.env, "op", NoOp) # 0) =>
              /\ UNCHANGED <<tasks, streams, rawDispatchers, emDispatchers, emVars>>
              /\ pc'["r1"] = "receiving"
              /\ UNCHANGED <<client, sockOpen, cancelled, leave, hb>>
      ]_vars

C12_Witness ==
    /\ Len(lastTexts) = 2
    /\ lastTexts[1].json = "ok" /\ lastTexts[2].json = "ok"
    /\ "op" \notin DOMAIN lastTexts[1].env
    /\ "op" \in DOMAIN lastTexts[2].env /\ lastTexts[2].env.op = 1
    /\ lastMessageId = "m3"
    /\ pc["r1"] = "receiving"
    /\ tasks["r1"] = {} /\ emTasks = {}
    /\ streams[1].buf = <<>> /\ streams[2].buf = <<>>

\* The number of times x is in seq.
Count(seq, x) == Cardinality({i \in 1..Len(seq) : seq[i] = x})

\* The subscribers of the manager, and those `subs` holds subscribed.
EmSubscribers == {id \in DOMAIN subs : subs[id].side = "em"}
Listed(type) == {id \in EmSubscribers : subs[id].type = type /\ subs[id].listed}

\* C13: a subscriber of buffer size B that has taken nothing holds the
\* first min(N, B) of the N events dispatched to its Dispatchable since it
\* subscribed, in dispatch order; the events beyond B are dropped for it
\* while it stays subscribed, and a dispatch that meets a full buffer
\* returns without error.
C13_FullBufferDropsNewest ==
    [][/\ \A id \in EmSubscribers' :
            (streams'[id].open /\ subs'[id].taken = 0) =>
                /\ streams'[id].buf =
                     SubSeq(subs'[id].offered, 1,
                            Min(Len(subs'[id].offered), streams'[id].cap))
                /\ subs'[id].type \in DOMAIN emDispatchers'
                /\ Has(emDispatchers'[subs'[id].type].streams, id)
       /\ \A type \in EventTypes :
            (/\ EmDispatchCall(type)
             /\ emPc = "running"
             /\ \E id \in Listed(type) :
                   streams[id].open /\ Len(streams[id].buf) >= streams[id].cap) =>
                apiResult'.result = "ok"
      ]_vars

C13_Witness ==
    \E id \in EmSubscribers :
        /\ streams[id].open /\ subs[id].taken = 0
        /\ streams[id].cap = 2
        /\ Len(subs[id].offered) = 3
        /\ Len(streams[id].buf) = 2
        /\ streams[id].buf[1].n = 1 /\ streams[id].buf[2].n = 2
        /\ apiResult = [call |-> "dispatch", result |-> "ok"]

\* The subscribers of a Dispatchable that are open, in subscription order.
RECURSIVE OpenOnes(_)
OpenOnes(ids) ==
    IF ids = <<>> THEN <<>>
    ELSE IF streams[Head(ids)].open THEN <<Head(ids)>> \o OpenOnes(Tail(ids))
    ELSE OpenOnes(Tail(ids))

\* One task for each registration of a callback, for the event.
TasksFor(callbacks, event) ==
    {[cb |-> callbacks[i], val |-> event, pos |-> i] : i \in 1..Len(callbacks)}

\* C14: a dispatch of the running manager that finds a closed subscriber
\* removes it from the Dispatchable and returns without error; every open
\* subscriber, before or after the closed one, stays subscribed and gets
\* the event if it has room, and every callback is started.
C14_ClosedSubscriberRemoved ==
    [][\A type \in EventTypes :
          (/\ EmDispatchCall(type)
           /\ emPc = "running"
           /\ type \in DOMAIN emDispatchers
           /\ \E i \in 1..Len(emDispatchers[type].streams) :
                 ~streams[emDispatchers[type].streams[i]].open) =>
              LET d == emDispatchers[type]
                  event == [type |-> type, n |-> nValues + 1]
              IN
              /\ apiResult'.result = "ok"
              /\ emDispatchers'[type].streams = OpenOnes(d.streams)
              /\ emDispatchers'[type].callbacks = d.callbacks
              /\ \A i \in 1..Len(d.streams) :
                    LET id == d.streams[i] IN
                    streams[id].open =>
                        streams'[id].buf =
                            IF Len(streams[id].buf) < streams[id].cap
                            THEN Append(streams[id].buf, event)
                            ELSE streams[id].buf
              /\ emTasks' = emTasks \cup TasksFor(d.callbacks, event)
              /\ Cardinality(emTasks' \ emTasks) = Len(d.callbacks)
      ]_vars

C14_Witness ==
    /\ DOMAIN streams = {1, 2, 3}
    /\ streams[1].open /\ ~streams[2].open /\ streams[3].open
    /\ \E type \in DOMAIN emDispatchers :
         /\ emDispatchers[type].streams = <<1, 3>>
         /\ emDispatchers[type].callbacks # <<>>
    /\ Len(streams[1].buf) = 1 /\ streams[3].buf = streams[1].buf
    /\ emTasks # {}
    /\ apiResult = [call |-> "dispatch", result |-> "ok"]

\* C15: every dispatch of the running manager starts each registration of
\* a callback of the type exactly once for the event, and gives the event
\* exactly once to each open subscriber that has room, whatever the state
\* (full, closed) of the other subscribers of the type.
C15_EachListenerOncePerValue ==
    [][\A type \in EventTypes :
          (EmDispatchCall(type) /\ emPc = "running" /\ type \in DOMAIN emDispatchers) =>
              LET d == emDispatchers[type]
                  event == [type |-> type, n |-> nValues + 1]
              IN
              /\ \A i \in 1..Len(d.callbacks) :
                    Cardinality({t \in emTasks' \ emTasks :
                                   t.val = event /\ t.pos = i /\ t.cb = d.callbacks[i]}) = 1
              /\ Cardinality(emTasks' \ emTasks) = Len(d.callbacks)
              /\ \A id \in Listed(type) :
                    (streams[id].open /\ Len(streams[id].buf) < streams[id].cap) =>
                        /\ streams'[id].buf = Append(streams[id].buf, event)
                        /\ Count(streams'[id].buf, event) = 1
                        /\ id \in Listed(type)'
      ]_vars

C15_Witness ==
    /\ DOMAIN streams = {1, 2}
    /\ streams[1].open /\ streams[1].cap = 1 /\ Len(streams[1].buf) = 1
    /\ streams[2].open /\ streams[2].cap = 2 /\ Len(streams[2].buf) = 2
    /\ streams[2].buf[2].n = 2
    /\ \E a, b \in emTasks :
         a.cb = "evA" /\ b.cb = "evB" /\ a.val = b.val /\ a.val.n = 2

\* C16: the Dispatchable of a type is empty (is_empty) exactly when the
\* callbacks added less those removed, and the subscriptions made less
\* those a dispatch found closed, are both none.
C16_IsEmptyIffNothingRegistered ==
    \A type \in EventTypes :
        IsEmpty(GetOrCreate(emDispatchers, type)) <=>
            /\ \A cb \in Callbacks : netCallbacks[cb] = 0
            /\ Listed(type) = {}

C16_Witness ==
    /\ \E type \in DOMAIN emDispatchers : IsEmpty(emDispatchers[type])
    /\ apiResult = [call |-> "dispatch", result |-> "ok"]
    /\ \E id \in EmSubscribers : ~subs[id].listed

\* C17: add_callback appends, also a callback that is there already;
\* remove_callback takes out the first registration of the callback only
\* and fails, changing nothing, when there is none; so a Dispatchable
\* holds each callback as often as it was added less removed, and a
\* dispatch starts it that often.
C17_RemoveFirstMatchOnly ==
    [][\A type \in EventTypes, cb \in Callbacks :
          LET before == GetOrCreate(emDispatchers, type).callbacks
              after == GetOrCreate(emDispatchers', type).callbacks
          IN
          /\ EmAddListener(type, cb) => after = Append(before, cb)
          /\ EmRemoveListener(type, cb) =>
                IF Has(before, cb)
                THEN /\ apiResult'.result = "ok"
                     /\ \E i \in 1..Len(before) :
                           /\ before[i] = cb
                           /\ \A j \in 1..(i - 1) : before[j] # cb
                           /\ after = SubSeq(before, 1, i - 1)
                                         \o SubSeq(before, i + 1, Len(before))
                     /\ streams' = streams
                ELSE /\ apiResult'.result \in {"ValueError", "KeyError"}
                     /\ UNCHANGED <<emDispatchers, streams, emTasks>>
          /\ Count(after, cb) = netCallbacks'[cb]
          /\ (EmDispatchCall(type) /\ emPc = "running") =>
                Cardinality({t \in emTasks' \ emTasks : t.cb = cb}) = netCallbacks[cb]
      ]_vars

C17_Witness ==
    /\ apiResult = [call |-> "dispatch", result |-> "ok"]
    /\ nValues = 2
    /\ \E type \in DOMAIN emDispatchers : emDispatchers[type].callbacks = <<"evA">>
    /\ netCallbacks["evA"] = 1
    /\ {<<t.val.n, t.pos>> : t \in {u \in emTasks : u.cb = "evA"}}
          = {<<1, 1>>, <<1, 2>>, <<2, 1>>}

\* C18: a dispatch before the manager's run has started fails
\* with "not active", whatever is registered for the type of the event.
C18_DispatchBeforeRunFails ==
    [][\A type \in EventTypes :
          (EmDispatchCall(type) /\ emTaskGroup = None) =>
              apiResult'.result = "not active"
      ]_vars

\* C19: in the event manager and in the raw router of the connection,
\* removing the last callback of an entry that holds no subscriber deletes
\* the entry, and a later dispatch for it changes nothing and raises
\* nothing; removing the last callback of an entry that holds a subscriber
\* keeps the entry, and the open subscriber goes on receiving.  A
\* subscriber is one in the entry's list: a closed one stays there until the
\* next dispatch for the entry takes it out.
C19_LastListenerRemovedDeletesEntry ==
    [][LET type == "MessageCreatedEvent"
           name == "Unlisted"
           event == [type |-> type, n |-> nValues + 1]
           value == [n |-> nFrames + 1, d |-> PayloadFull]
           Given(sts, id, item) ==
               IF sts[id].open /\ Len(sts[id].buf) < sts[id].cap
               THEN Append(sts[id].buf, item) ELSE sts[id].buf
       IN
       /\ (/\ EmRemoveListener(type, "evA")
           /\ type \in DOMAIN emDispatchers
           /\ emDispatchers[type].callbacks = <<"evA">>) =>
            IF emDispatchers[type].streams = <<>>
            THEN type \notin DOMAIN emDispatchers'
            ELSE /\ type \in DOMAIN emDispatchers'
                 /\ emDispatchers'[type] =
                      [callbacks |-> <<>>, streams |-> emDispatchers[type].streams]
       /\ (EmDispatchCall(type) /\ type \notin DOMAIN emDispatchers) =>
            /\ apiResult'.result = "ok"
            /\ UNCHANGED <<emDispatchers, rawDispatchers, streams, emTasks, tasks>>
       /\ (/\ EmDispatchCall(type) /\ emPc = "running"
           /\ type \in DOMAIN emDispatchers
           /\ emDispatchers[type].callbacks = <<>>) =>
            /\ apiResult'.result = "ok"
            /\ \A i \in 1..Len(emDispatchers[type].streams) :
                  LET id == emDispatchers[type].streams[i] IN
                  streams'[id].buf = Given(streams, id, event)
       /\ (/\ RemoveRawListener(name, "rawA")
           /\ name \in DOMAIN rawDispatchers
           /\ rawDispatchers[name].callbacks = <<"rawA">>) =>
            IF rawDispatchers[name].streams = <<>>
            THEN name \notin DOMAIN rawDispatchers'
            ELSE /\ name \in DOMAIN rawDispatchers'
                 /\ rawDispatchers'[name] =
                      [callbacks |-> <<>>, streams |-> rawDispatchers[name].streams]
       /\ (ReceiveText("r1", UnlistedFrame) /\ name \notin DOMAIN rawDispatchers) =>
            /\ pc'["r1"] = "receiving" /\ leave' = leave
            /\ UNCHANGED <<emDispatchers, rawDispatchers, streams, emTasks, tasks>>
       /\ (/\ ReceiveText("r1", UnlistedFrame)
           /\ name \in DOMAIN rawDispatchers
           /\ rawDispatchers[name].callbacks = <<>>) =>
            /\ pc'["r1"] = "receiving" /\ leave' = leave
            /\ tasks' = tasks
            /\ \A i \in 1..Len(rawDispatchers[name].streams) :
                  LET id == rawDispatchers[name].streams[i] IN
                  streams'[id].buf = Given(streams, id, value)
      ]_vars

C19_Witness ==
    /\ emDispatchers = <<>> /\ rawDispatchers = <<>>
    /\ nValues = 2 /\ nFrames = 2
    /\ apiResult = [call |-> "dispatch", result |-> "ok"]
    /\ {t.val.n : t \in emTasks} = {1}
    /\ {t.val.n : t \in tasks["r1"]} = {1}
    /\ pc["r1"] = "receiving"

\* C20: a dispatch frame whose event name the event manager has no handler
\* for starts nothing in the manager and raises nothing, and its payload
\* still goes to every raw listener and every open raw stream with room
\* registered for the name on the connection.
C20_UnhandledNameStillRaw ==
    [][ReceiveText("r1", UnlistedFrame) =>
          LET name == "Unlisted"
              value == [n |-> nFrames + 1, d |-> PayloadFull]
              d == GetOrCreate(rawDispatchers, name)
          IN
          /\ UNCHANGED <<emDispatchers, emVars>>
          /\ \A id \in EmSubscribers : streams'[id] = streams[id]
          /\ pc'["r1"] = "receiving" /\ leave' = leave /\ cancelled' = cancelled
          /\ tasks'["r1"] = tasks["r1"] \cup TasksFor(d.callbacks, value)
          /\ \A i \in 1..Len(d.streams) :
                LET id == d.streams[i] IN
                (streams[id].open /\ Len(streams[id].buf) < streams[id].cap) =>
                    streams'[id].buf = Append(streams[id].buf, value)
      ]_vars

C20_Witness ==
    /\ lastTexts = <<UnlistedFrame>>
    /\ pc["r1"] = "receiving"
    /\ \E t \in tasks["r1"] : t.cb = "rawA" /\ t.val.n = 1
    /\ DOMAIN streams = {1, 2}
    /\ Len(streams[1].buf) = 1 /\ streams[1].buf[1].n = 1
    /\ streams[2].buf = <<>>
    /\ emTasks = {}
    /\ nValues = 0

\* C21: a dispatch of an event reaches the Dispatchable registered for the
\* event's own class only: the callbacks started are those of that class,
\* and the Dispatchable and the streams of every other class, its base
\* class and its subclasses among them, are as they were.
C21_DispatchByConcreteType ==
    [][\A type \in {"MessageCreatedEvent", "AppCreatedEvent"} :
         EmDispatchCall(type) =>
           LET event == [type |-> type, n |-> nValues + 1] IN
           /\ \A other \in DOMAIN emDispatchers \ {type} :
                 /\ other \in DOMAIN emDispatchers'
                 /\ emDispatchers'[other] = emDispatchers[other]
                 /\ \A i \in 1..Len(emDispatchers[other].streams) :
                       LET id == emDispatchers[other].streams[i] IN
                       streams'[id] = streams[id]
           /\ emTasks' \ emTasks \subseteq TasksFor(emDispatchers[type].callbacks, event)
           /\ emPc = "running" =>
                 /\ emTasks' = emTasks \cup TasksFor(emDispatchers[type].callbacks, event)
                 /\ \A i \in 1..Len(emDispatchers[type].streams) :
                       LET id == emDispatchers[type].streams[i] IN
                       Len(streams[id].buf) < streams[id].cap =>
                          streams'[id].buf = Append(streams[id].buf, event)
      ]_vars

C21_Witness ==
    /\ apiResult = [call |-> "dispatch", result |-> "ok"]
    /\ nValues = 2
    /\ emTasks = {[cb |-> "evA", pos |-> 1,
                   val |-> [type |-> "MessageCreatedEvent", n |-> 1]],
                  [cb |-> "evB", pos |-> 1,
                   val |-> [type |-> "AppCreatedEvent", n |-> 2]]}
    /\ DOMAIN streams = 1..4
    /\ streams[StreamOf("MessageEvent")].buf = <<>>
    /\ streams[StreamOf("MessageDeletedEvent")].buf = <<>>
    /\ streams[StreamOf("MessageCreatedEvent")].buf =
         <<[type |-> "MessageCreatedEvent", n |-> 1]>>
    /\ streams[StreamOf("AppCreatedEvent")].buf = <<[type |-> "AppCreatedEvent", n |-> 2]>>

\* C22: dispatch_raw of ChatMessageDeleted with id, channelId and deletedAt
\* at the top level of the payload, on a running manager, raises nothing
\* and starts the listener of MessageDeletedEvent with an event whose
\* message_id and channel_id are the parsed id and channelId of the
\* payload, whatever other fields the payload has.
C22_DeletedEventFromTopLevelFields ==
    [][\A d \in {DeletedTop, DeletedTopAndMessage} :
         (EmDispatchRawCall("ChatMessageDeleted", d) /\ emPc = "running") =>
           /\ apiResult'.result = "ok"
           /\ \E t \in emTasks' \ emTasks :
                 /\ t.val.type = "MessageDeletedEvent"
                 /\ t.val.message_id = ParseUuid(d.id)
                 /\ t.val.channel_id = ParseUuid(d.channelId)
      ]_vars

\* C23: close and join called on a connection that never had a session
\* each raise "Websocket client isn't running" at once and change nothing
\* of the connection.
C23_CloseJoinNeverStartedFail ==
    [][\A c \in Closers :
         ((Close(c) \/ Join(c)) /\ nSessions = 0) =>
            /\ cl'[c].pc = "failed"
            /\ \A o \in Closers \ {c} : cl'[o] = cl[o]
            /\ UNCHANGED <<client, cancelScope, joinEvent, lastMessageId,
                           nSessions, sockOpen, sockCloses, cancelled,
                           eventSets, pc, sess, leave, result, hb, childExc,
                           tasks, sent, nFrames, lastTexts, fanVars, emVars>>
      ]_vars

C23_Witness ==
    /\ nSessions = 0
    /\ cl["c1"] = [pc |-> "failed", ev |-> None, call |-> "close"]
    /\ cl["c2"] = [pc |-> "failed", ev |-> None, call |-> "join"]

\* C24: a join called during a session does not return while the socket of
\* the session is open, and when the session ends, whatever ended it, the
\* event the caller waits for has been set, so that the call returns.
C24_JoinReturnsWhenSessionEnds ==
    /\ [](\A c \in Closers :
            (cl[c].call = "join" /\ cl[c].pc = "returned") => cl[c].ev \notin sockOpen)
    /\ [][\A r \in Runners, c \in Closers :
            (/\ ExitTaskGroup(r)
             /\ cl[c].call = "join" /\ cl[c].pc = "waiting" /\ cl[c].ev = sess[r]) =>
               eventSets[sess[r]] > 0
         ]_vars

\* C25: a close or a join of the bot called while the bot is running, and
\* which has waited until the bot's join event was set, ends by returning;
\* the call raises "Bot is not running" only when the bot is not running
\* as it is called.
C25_BotCloseJoinReturn ==
    \A k \in BotClosers :
       bcl[k].pc = "done" =>
          /\ bcl[k].result = "Bot is not running" => bcl[k].during = None
          /\ (bcl[k].during # None /\ bcl[k].ev \in botEventSets) =>
                bcl[k].result = "returned"

\* C26: while a close of the bot is in flight, another call of close calls
\* the close of no component and waits for the join event of the run; no
\* component's close is called twice; and when the bot stops, no caller of
\* close is left waiting for an event that is not set: each call has ended
\* or goes on to its end.
C26_CloseInFlightJoined ==
    /\ [](\A comp \in DOMAIN closeCalls : closeCalls[comp] <= 1)
    /\ [][\A k \in BotClosers :
            (BotClose(k) /\ botIsClosing) =>
               /\ closeCalls' = closeCalls
               /\ cancelled' = cancelled /\ emCancelled' = emCancelled
               /\ restClient' = restClient
               /\ bcl'[k].pc = "joining" /\ bcl'[k].ev = botJoinEvent
         ]_vars
    /\ [][\A b \in BotRunners, k \in BotClosers :
            (BotExit(b) /\ bcl[k].call = "close" /\ bcl[k].during = bot[b].run) =>
               \/ bcl[k].pc = "done"
               \/ bcl[k].pc = "joining" /\ bcl[k].ev \in botEventSets'
               \/ bcl[k].pc = "closing ws" /\ eventSets[bcl[k].wsEv] > 0
                     /\ bcl[k].ev \in botEventSets'
         ]_vars

\* C27: a close of the bot called while the bot is running does not end
\* before the bot has stopped: when the call has ended, run has returned,
\* is_running is false, and the connection's run and the event manager's
\* run have ended.
C27_BotCloseStopsBoth ==
    \A k \in BotClosers :
       (bcl[k].call = "close" /\ bcl[k].during # None /\ bcl[k].pc = "done") =>
          /\ ~BotIsRunning
          /\ \A b \in BotRunners : bot[b].run = bcl[k].during => bot[b].pc = "idle"
          /\ WsChildDone /\ EmChildDone

\* C28: run and run_blocking called while the bot is running raise "Bot is
\* already running" at once and leave the scope, the join event, the
\* closing flag, the REST client, the connection and the event manager as
\* they are.
C28_BotRunWhileRunningFails ==
    [][\A b \in BotRunners, call \in {"run", "run_blocking"} :
         (BotRun(b, call) /\ BotIsRunning) =>
            /\ bot'[b].result = "Bot is already running"
            /\ bot'[b].pc = bot[b].pc
            /\ \A o \in BotRunners \ {b} : bot'[o] = bot[o]
            /\ UNCHANGED <<botCloseScope, botJoinEvent, botIsClosing, botEventSets,
                           restClient, nBotRuns, bcl, closeCalls,
                           wsVars, fanVars, emVars>>
      ]_vars

C28_Witness ==
    /\ BotIsRunning
    /\ bot["b1"].pc = "waiting"
    /\ bot["b2"] = [pc |-> "idle", run |-> None, call |-> "run_blocking",
                    result |-> "Bot is already running"]
    /\ pc["r1"] = "receiving"
    /\ emPc = "running"

C26_Witness ==
    /\ closeCalls = [ws |-> 1, em |-> 1, rest |-> 1]
    /\ ~BotIsRunning
    /\ bot["b1"].pc = "idle" /\ bot["b1"].result = "returned"
    /\ \A k \in BotClosers :
          /\ bcl[k].call = "close" /\ bcl[k].during = 1 /\ bcl[k].ev = 1
          /\ bcl[k].pc = "done"
    /\ bcl["k1"].wsEv = 1 /\ bcl["k2"].wsEv = None

\* The streams are numbered as they are made, so a list of streams is in
\* subscription order when its numbers rise.
Rising(ids) == \A i, j \in 1..Len(ids) : i < j => ids[i] < ids[j]

\* C29: the list of subscribers a dispatch goes through from its head is in
\* subscription order and the list of callbacks in registration order (a
\* registration goes to the end of the list); a dispatch starts the
\* callbacks in the order of the list; and every open subscriber with room
\* gets the value, whether or not another subscriber of the list is full.
C29_OrderWithinDispatch ==
    /\ [](\A type \in DOMAIN emDispatchers : Rising(emDispatchers[type].streams))
    /\ [][\A type \in EventTypes :
            /\ \A cb \in Callbacks :
                  EmAddListener(type, cb) =>
                     emDispatchers'[type].callbacks =
                        Append(GetOrCreate(emDispatchers, type).callbacks, cb)
            /\ (/\ EmDispatchCall(type)
                /\ emPc = "running"
                /\ type \in DOMAIN emDispatchers) =>
                  LET d == emDispatchers[type]
                      event == [type |-> type, n |-> nValues + 1]
                  IN
                  /\ emTasks' \ emTasks \subseteq
                        {[cb |-> d.callbacks[i], val |-> event, pos |-> i] :
                            i \in 1..Len(d.callbacks)}
                  /\ \A i \in 1..Len(d.callbacks) :
                        \E t \in emTasks' : t.val = event /\ t.pos = i
                                              /\ t.cb = d.callbacks[i]
                  /\ \A i \in 1..Len(d.streams) :
                        LET id == d.streams[i] IN
                        (streams[id].open /\ Len(streams[id].buf) < streams[id].cap) =>
                           streams'[id].buf = Append(streams[id].buf, event)
         ]_vars

C29_Witness ==
    /\ "MessageCreatedEvent" \in DOMAIN emDispatchers
    /\ emDispatchers["MessageCreatedEvent"] =
         [callbacks |-> <<"evB", "evA">>, streams |-> <<1, 2>>]
    /\ streams[1].cap = 1 /\ streams[2].cap = 2
    /\ Len(streams[1].buf) = 1 /\ streams[1].buf[1].n = 1
    /\ Len(streams[2].buf) = 2 /\ streams[2].buf[2].n = 2
    /\ \E t \in emTasks : t.val.n = 2 /\ t.pos = 1 /\ t.cb = "evB"
    /\ \E t \in emTasks : t.val.n = 2 /\ t.pos = 2 /\ t.cb = "evA"
    /\ apiResult = [call |-> "dispatch", result |-> "ok"]

\* C30: no entry of the event manager's map or of the connection's map
\* holds a Dispatchable without callbacks and without subscribers.
C30_NoEmptyDispatchable ==
    /\ \A type \in DOMAIN emDispatchers : ~IsEmpty(emDispatchers[type])
    /\ \A name \in DOMAIN rawDispatchers : ~IsEmpty(rawDispatchers[name])

\* C31: when a run session of the connection ends, for whatever reason
\* (close, a failed handshake, a clean close, an end of stream), is_running
\* is false and the cancel scope, the join event and the socket handle are
\* cleared; a run called when no session is in progress is accepted.
C31_SessionEndClearsFields ==
    /\ [][\A r \in Runners :
            ExitTaskGroup(r) =>
                /\ ~IsRunning'
                /\ cancelScope' = None
                /\ joinEvent' = None
                /\ client' = None]_vars
    /\ [][\A r \in Runners :
            ((\A q \in Runners : pc[q] = "idle") /\ Run(r)) =>
                result'[r] # "already running"]_vars

\* C33: the last message id is set from the hello frame's lastMessageId
\* and from then on is the "s" of the most recent well-formed frame that
\* carried a non-empty "s", whatever its opcode; a frame that is not JSON
\* and a frame without "s" (or with an empty one) leave it as it is.
C33_LastMessageIdTracksS ==
    /\ [][Hello("r1", 2000) => lastMessageId' = HelloMessageId]_vars
    /\ [][\A f \in DispatchFrames :
            ReceiveText("r1", f) =>
                lastMessageId' =
                    IF f.json = "ok" /\ "s" \in DOMAIN f.env /\ f.env.s # ""
                    THEN f.env.s
                    ELSE lastMessageId]_vars

C33_Witness ==
    /\ Len(lastTexts) = 2
    /\ lastTexts[1].json = "ok"
    /\ Get(lastTexts[1].env, "op", NoOp) = 1 /\ lastTexts[1].env.s = "m3"
    /\ lastTexts[2].json = "ok"
    /\ "op" \notin DOMAIN lastTexts[2].env /\ lastTexts[2].env.s = ""
    /\ lastMessageId = "m3"
    /\ pc["r1"] = "receiving"

\* C34: the event manager holds a task scope only while its run executes:
\* once run has exited (after close, or after a callback failure cancelled
\* the scope) no scope is held, so that a dispatch fails with "not active"
\* and run can be called again.
C34_ManagerInactiveAfterRun ==
    /\ [](emPc = "idle" => emTaskGroup = None)
    /\ [][(emPc = "idle" /\ emResult # "none" /\ EmRun) =>
              emPc' = "running"]_vars

\* C36: the bot's _is_closing flag is true only while a shutdown is in
\* progress: whenever it is true some caller of close is still carrying
\* the shutdown out (closing the connection, or waiting for run to return
\* and reset the flag), also when a step of close has failed; so that a
\* later close never waits for a bot that will not stop.
C36_IsClosingOnlyDuringShutdown ==
    botIsClosing =>
        \E k \in BotClosers :
            /\ bcl[k].call = "close"
            /\ bcl[k].pc \in {"closing ws", "joining"}
            /\ bcl[k].during = botCloseScope

\* C37: when the bot's run has returned, for whatever reason, is_running is
\* false and the REST client is stopped, so that a run called afterwards
\* does not fail because the REST client is started already.
C37_RestStoppedAfterRun ==
    /\ [][\A b \in BotRunners :
            BotExit(b) => (~BotIsRunning' /\ restClient' = None)]_vars
    /\ [][\A b \in BotRunners, call \in {"run", "run_blocking"} :
            (~BotIsRunning /\ BotRun(b, call)) =>
                bot'[b].result # "Client is already running"]_vars

\* a is b with items left out (in b's order).
RECURSIVE SubseqOf(_, _)
SubseqOf(a, b) ==
    IF a = <<>> THEN TRUE
    ELSE IF b = <<>> THEN FALSE
    ELSE IF Head(a) = Head(b) THEN SubseqOf(Tail(a), Tail(b))
    ELSE SubseqOf(a, Tail(b))

\* C38: a subscription of buffer size B never holds more than B values;
\* what it holds, and so what it receives, is a part of the values
\* dispatched to its type after it subscribed, in dispatch order and each
\* once: a value received comes from those values, and everything still
\* buffered was dispatched after it.
C38_BufferBoundedAndInOrder ==
    /\ [](\A id \in EmSubscribers :
            /\ Len(streams[id].buf) <= streams[id].cap
            /\ SubseqOf(streams[id].buf, subs[id].offered)
            /\ \A i, j \in 1..Len(subs[id].offered) :
                  i < j => subs[id].offered[i].n < subs[id].offered[j].n)
    /\ [][\A id \in EmSubscribers :
            StreamReceive(id) =>
                LET got == Head(streams[id].buf) IN
                /\ \E i \in 1..Len(subs[id].offered) : subs[id].offered[i] = got
                /\ got.type = subs[id].type
                /\ \A i \in 1..Len(streams'[id].buf) : streams'[id].buf[i].n > got.n
         ]_vars

C38_Witness ==
    \E id \in EmSubscribers :
        /\ streams[id].open /\ streams[id].cap = 2
        /\ Len(subs[id].offered) = 4
        /\ subs[id].taken = 1
        /\ Len(streams[id].buf) = 2
        /\ streams[id].buf[1].n = 2 /\ streams[id].buf[2].n = 4

\* C32: a connection has at most one socket and one session at a time,
\* also when run is called by two tasks at once: a run that starts while
\* another is still establishing its socket opens no second session and
\* does not overwrite the socket handle, the cancel scope or the join event.
C32_OneSessionPerClient ==
    /\ [](Cardinality(sockOpen) <= 1)
    /\ [](Cardinality({r \in Runners :
                         pc[r] \in {"hello", "receiving", "finally"}}) <= 1)
    /\ [][\A r \in Runners :
            Connected(r) =>
                client = None /\ cancelScope = None /\ joinEvent = None]_vars

\* C35: under the bot, whenever the connection forwards a dispatch frame
\* to the event manager, the manager's task scope is active: it has been
\* entered, is not cancelled and has not been left.
C35_ManagerActiveWhenForwarded ==
    [][ReceiveText("r1", BotFrame) =>
          /\ emTaskGroup # None
          /\ emPc = "running"
          /\ ~emCancelled
      ]_vars

\* C39: the heartbeat task of the gateway client (impl/gateway.py) goes on
\* sending one ping per interval until it is cancelled: when the sleep of
\* an interval is over the next ping is due, and the task is over only
\* once its scope or its task group's was cancelled (or the send failed).
C39_GatewayHeartbeatKeepsPinging ==
    /\ [](\A s \in GwStarters :
            gw[s].hb = "done" => GwHeartbeatScopeCancelled(s))
    /\ [][\A s \in GwStarters :
            GwHeartbeatSleepDone(s) => gw'[s].hb = "ready"]_vars

\* C40: over the calls of start, close, add_raw_listener and
\* remove_raw_listener of the gateway client, a registered listener is
\* active exactly when the client holds a task group, and no listener is
\* activated while it is active or deactivated while it is not.
C40_ListenerActiveIffTaskGroup ==
    /\ \A i \in 1..Len(gwListeners) :
          (gwListeners[i].obj \in gwActive) <=> (gwTaskGroup # None)
    /\ gwCl.result # "not active"
    /\ gwApi.result \notin {"not active", "already active"}
    /\ \A s \in GwStarters : gw[s].result # "already active"

====
